---- MODULE Spec2Model ----
(***************************************************************************)
(* Groth16 proof aggregation (bellperson, groth16/aggregate): the          *)
(* aggregate prover (prove.rs), the aggregate verifier (verify.rs) and     *)
(* the transcript polynomial utilities, over a scaled-down bilinear group. *)
(*                                                                         *)
(* Group elements are written by their discrete logarithm: a G1 or G2     *)
(* point is an element of Fr (0 is the identity, point addition is         *)
(* addition in Fr, scalar multiplication is multiplication in Fr).  The   *)
(* extension field Fqk is its zero element together with the cyclic        *)
(* group Fqk* of order Q = P * Cofactor, written additively; the target   *)
(* group Gt is the subgroup of order P.                                    *)
(***************************************************************************)
EXTENDS Integers, Sequences, FiniteSets, TLC

\* ------------------------------------------------------------------------
\* Scalar field Fr (crate::bls::Engine::Fr)
\* ------------------------------------------------------------------------

\* The modulus of the scalar field (a prime).
P == 7
Fr == 0 .. (P - 1)

\* Option::None, the result of inverse() on zero.
None == -1
\* The result of a computation that panics (index out of bounds, unwrap of None).
Panic == -2

FrAdd(a, b) == (a + b) % P
FrSub(a, b) == (a - b + P) % P
FrMul(a, b) == (a * b) % P
FrNeg(a) == (P - a) % P
FrInverse(a) == IF a = 0 THEN None ELSE CHOOSE x \in 1 .. (P - 1) : (a * x) % P = 1

RECURSIVE FrPow(_, _)
FrPow(a, e) == IF e = 0 THEN 1 ELSE FrMul(a, FrPow(a, e - 1))

\* ------------------------------------------------------------------------
\* Transcript polynomial utilities (prove.rs)
\* ------------------------------------------------------------------------

\* The loop "for x in transcript[1..]" of the product-form evaluation, from
\* index i on, with the running result res and the running power (rz)^(2^(i-1)).
RECURSIVE eval_rest(_, _, _, _)
eval_rest(transcript, i, res, power_zr) ==
    IF i > Len(transcript) THEN res
    ELSE eval_rest(transcript, i + 1,
                   FrMul(res, FrAdd(1, FrMul(transcript[i], power_zr))),
                   FrMul(power_zr, power_zr))

\* polynomial_evaluation_product_form_from_transcript(transcript, z, r_shift):
\* prod_i (1 + transcript[i] * (r_shift * z)^(2^i)).  The "0 iteration" reads
\* transcript[0], which panics on an empty slice.
polynomial_evaluation_product_form_from_transcript(transcript, z, r_shift) ==
    IF Len(transcript) = 0 THEN Panic
    ELSE LET power_zr == FrMul(z, r_shift)
             res == FrAdd(1, FrMul(transcript[1], power_zr))
         IN  eval_rest(transcript, 2, res, FrMul(power_zr, power_zr))

\* The inner loop with the factor power_2_r dropped from the appended coefficients.
coefficients_doubled_without_shift(coefficients, x, power_2_r) ==
    coefficients \o [j \in 1 .. Len(coefficients) |-> FrMul(coefficients[j], x)]

\* The inner loop "for j in 0..n" appending x * power_2_r * coefficients[j].
coefficients_doubled(coefficients, x, power_2_r) ==
    coefficients \o
        [j \in 1 .. Len(coefficients) |-> FrMul(coefficients[j], FrMul(x, power_2_r))]

RECURSIVE coefficients_from(_, _, _, _)
coefficients_from(transcript, i, coefficients, power_2_r) ==
    IF i > Len(transcript) THEN coefficients
    ELSE coefficients_from(transcript, i + 1,
                           coefficients_doubled(coefficients, transcript[i], power_2_r),
                           FrMul(power_2_r, power_2_r))

\* polynomial_coefficients_from_transcript(transcript, r_shift): the
\* coefficients, lowest degree first, of prod_i (1 + transcript[i] * (r_shift X)^(2^i)).
polynomial_coefficients_from_transcript(transcript, r_shift) ==
    coefficients_from(transcript, 1, <<1>>, r_shift)

\* Value at z of the polynomial with the given coefficients (lowest first).
RECURSIVE evaluate_from(_, _, _)
evaluate_from(coeffs, i, z) ==
    IF i > Len(coeffs) THEN 0
    ELSE FrAdd(coeffs[i], FrMul(z, evaluate_from(coeffs, i + 1, z)))

evaluate(coeffs, z) == evaluate_from(coeffs, 1, z)

\* prod_{i} (1 + t[i] * (r*z)^(2^i)) written out term by term.
RECURSIVE product_form(_, _, _, _)
product_form(t, i, z, r) ==
    IF i > Len(t) THEN 1
    ELSE FrMul(FrAdd(1, FrMul(t[i], FrPow(FrMul(r, z), 2 ^ (i - 1)))),
               product_form(t, i + 1, z, r))

\* ------------------------------------------------------------------------
\* Bilinear group (crate::bls::Engine): G1, G2, Fqk, pairing
\* ------------------------------------------------------------------------

\* Fqk* is cyclic of order Q = P * Cofactor; Gt is its subgroup of order P.
Cofactor == 2
Q == P * Cofactor
FqkOne == 0
FqkZero == Q
Fqk == 0 .. Q

FqkMul(x, y) == IF x = FqkZero \/ y = FqkZero THEN FqkZero ELSE (x + y) % Q
FqkInverse(x) == IF x = FqkZero THEN None ELSE (Q - x) % Q
\* x^s for a scalar s given by its representation.
FqkPow(x, s) ==
    IF x = FqkZero THEN (IF s = 0 THEN FqkOne ELSE FqkZero) ELSE (x * s) % Q

\* E::miller_loop on one pair: an element of Fqk* whose final exponentiation is
\* the pairing; it is not bilinear before the final exponentiation.
miller_loop(g1, g2) == (g1 * g2) % Q
\* E::final_exponentiation: raising to the cofactor maps Fqk* onto Gt.
final_exponentiation(x) == IF x = FqkZero THEN None ELSE (Cofactor * x) % Q
\* E::pairing(p, q) = final_exponentiation(miller_loop(p, q)).
pairing(g1, g2) == final_exponentiation(miller_loop(g1, g2))

Min(a, b) == IF a <= b THEN a ELSE b

\* ------------------------------------------------------------------------
\* inner_product, commit, structured_scalar_power (aggregate module)
\* ------------------------------------------------------------------------

\* inner_product::pairing_miller_affine(left, right): prod_i miller_loop(left[i], right[i]).
RECURSIVE pairing_miller_affine_from(_, _, _)
pairing_miller_affine_from(left, right, i) ==
    IF i > Min(Len(left), Len(right)) THEN FqkOne
    ELSE FqkMul(miller_loop(left[i], right[i]), pairing_miller_affine_from(left, right, i + 1))

pairing_miller_affine(left, right) == pairing_miller_affine_from(left, right, 1)

\* inner_product::pairing(a, b): prod_i e(a[i], b[i]).
inner_product_pairing(a, b) == final_exponentiation(pairing_miller_affine(a, b))

\* inner_product::multiexponentiation(c, r): sum_i r[i] * c[i] in G1.
RECURSIVE multiexponentiation_from(_, _, _)
multiexponentiation_from(c, r, i) ==
    IF i > Min(Len(c), Len(r)) THEN 0
    ELSE FrAdd(FrMul(c[i], r[i]), multiexponentiation_from(c, r, i + 1))

multiexponentiation(c, r) == multiexponentiation_from(c, r, 1)

\* commit::pair(vkey, wkey, a, b) = (T, U):
\* T = prod e(a[i], v.a[i]) * prod e(w.a[i], b[i]), U likewise with v.b and w.b.
commit_pair(vkey, wkey, a, b) ==
    << FqkMul(inner_product_pairing(a, vkey.a), inner_product_pairing(wkey.a, b)),
       FqkMul(inner_product_pairing(a, vkey.b), inner_product_pairing(wkey.b, b)) >>

\* commit::single_g1(vkey, c) = (T, U): T = prod e(c[i], v.a[i]), U = prod e(c[i], v.b[i]).
commit_single_g1(vkey, c) ==
    << inner_product_pairing(c, vkey.a), inner_product_pairing(c, vkey.b) >>

\* Key::has_correct_len(n)
has_correct_len(key, n) == Len(key.a) = n /\ Len(key.b) = n

\* Key::scale(s): every power raised to the corresponding scalar.
scale(key, s) ==
    LET m == Min(Min(Len(key.a), Len(key.b)), Len(s))
    IN  [a |-> [i \in 1 .. m |-> FrMul(key.a[i], s[i])],
         b |-> [i \in 1 .. m |-> FrMul(key.b[i], s[i])]]

\* Key::split(at): the halves [0, at) and [at, len).
split_left(key, at) == [a |-> SubSeq(key.a, 1, at), b |-> SubSeq(key.b, 1, at)]
split_right(key, at) ==
    [a |-> SubSeq(key.a, at + 1, Len(key.a)), b |-> SubSeq(key.b, at + 1, Len(key.b))]

\* The compression with the scale applied to the left half in place of the right.
compress_scaling_left(left, right, c) ==
    [a |-> [i \in 1 .. Min(Len(left.a), Len(right.a)) |->
                FrAdd(FrMul(left.a[i], c), right.a[i])],
     b |-> [i \in 1 .. Min(Len(left.b), Len(right.b)) |->
                FrAdd(FrMul(left.b[i], c), right.b[i])]]

\* Key::compress(left, right, scale): left[i] * right[i]^scale.
compress(left, right, c) ==
    [a |-> [i \in 1 .. Min(Len(left.a), Len(right.a)) |->
                FrAdd(left.a[i], FrMul(right.a[i], c))],
     b |-> [i \in 1 .. Min(Len(left.b), Len(right.b)) |->
                FrAdd(left.b[i], FrMul(right.b[i], c))]]

\* Key::first(): the pair of first elements.
first(key) == << key.a[1], key.b[1] >>

\* structured_scalar_power(num, s) = (1, s, s^2, ..., s^(num-1)).
structured_scalar_power(num, s) == [i \in 1 .. num |-> FrPow(s, i - 1)]

\* SRS::get_commitment_keys: v.a[i] = h^(alpha^i), v.b[i] = h^(beta^i),
\* w.a[i] = g^(alpha^(n+i)), w.b[i] = g^(beta^(n+i)); g and h are the generators.
get_commitment_keys(srs) ==
    << [a |-> [i \in 1 .. srs.vlen |-> FrPow(srs.alpha, i - 1)],
        b |-> [i \in 1 .. srs.vlen |-> FrPow(srs.beta, i - 1)]],
       [a |-> [i \in 1 .. srs.wlen |-> FrPow(srs.alpha, srs.n + i - 1)],
        b |-> [i \in 1 .. srs.wlen |-> FrPow(srs.beta, srs.n + i - 1)]] >>

\* ------------------------------------------------------------------------
\* Fiat-Shamir helper
\* ------------------------------------------------------------------------

\* Width of the nonce counter (usize), of a hash digest, of the u128 taken from
\* it and of a limb of the field representation.
UsizeBits == 2
DigestBits == 4
U128Bits == 2
LimbBits == 1

\* Sha256::digest over the serialised hash input, given as the list of the
\* serialised values: a fixed mixing function onto DigestBits bits.
RECURSIVE digest_from(_, _, _)
digest_from(hash_input, i, h) ==
    IF i > Len(hash_input) THEN h
    ELSE digest_from(hash_input, i + 1, (h * 5 + hash_input[i] + 1) % (2 ^ DigestBits))

Sha256_digest(hash_input) == digest_from(hash_input, 1, 0)

\* fr_from_u128(bytes): the leading 16 bytes of the digest as a big-endian
\* u128, its low half in limb 0 and its high half in limb 1 of the representation.
fr_from_u128(d) ==
    LET other == d \div (2 ^ (DigestBits - U128Bits))
        upper == other \div (2 ^ LimbBits)
        lower == other % (2 ^ LimbBits)
    IN  lower + upper * (2 ^ LimbBits)

\* is_power_of_two on usize: false for 0.
RECURSIVE is_power_of_two(_)
is_power_of_two(n) ==
    IF n = 0 THEN FALSE
    ELSE IF n = 1 THEN TRUE
    ELSE n % 2 = 0 /\ is_power_of_two(n \div 2)

Reverse(s) == [i \in 1 .. Len(s) |-> s[Len(s) + 1 - i]]

\* ------------------------------------------------------------------------
\* Groth16 statements given to the aggregator
\* ------------------------------------------------------------------------

\* A prepared verifying key: alpha_g1, beta_g2, gamma_g2, delta_g2, ic.
Pvk == [alpha_g1 |-> 2, beta_g2 |-> 3, gamma_g2 |-> 4, delta_g2 |-> 5, ic |-> <<1, 2>>]

\* sum_j pub[j] * ic[j+1] + ic[0]
RECURSIVE ic_sum(_, _, _)
ic_sum(ic, pub, j) ==
    IF j > Len(pub) THEN ic[1]
    ELSE FrAdd(FrMul(pub[j], ic[j + 1]), ic_sum(ic, pub, j + 1))

\* The Groth16 equation e(A,B) = e(alpha,beta) * e(IC(pub),gamma) * e(C,delta).
groth16_holds(pvk, proof, pub) ==
    pairing(proof.a, proof.b) =
        FqkMul(pairing(pvk.alpha_g1, pvk.beta_g2),
               FqkMul(pairing(ic_sum(pvk.ic, pub, 1), pvk.gamma_g2),
                      pairing(proof.c, pvk.delta_g2)))

\* The proof (a, b, c) of the statement pub with the given a and b.
honest_proof(a, b, pub) ==
    [a |-> a, b |-> b,
     c |-> FrMul(FrSub(FrSub(FrMul(a, b), FrMul(Pvk.alpha_g1, Pvk.beta_g2)),
                       FrMul(ic_sum(Pvk.ic, pub, 1), Pvk.gamma_g2)),
                 FrInverse(Pvk.delta_g2))]

PubPool == {<<1>>, <<2>>}
ProofPool == {honest_proof(1, 2, <<1>>), honest_proof(3, 5, <<2>>)}

\* The trusted setup's secret exponents (alpha, beta) of the SRS.
SrsSecrets == {<<3, 5>>}

\* ------------------------------------------------------------------------
\* aggregate_proofs, prove_tipp, gipa_tipp, prove_mipp (prove.rs)
\* ------------------------------------------------------------------------

\* The length check on the two commitment keys, with "and" in place of "or".
srs_len_mismatch_both(vkey, wkey, n) ==
    ~has_correct_len(vkey, n) /\ ~has_correct_len(wkey, n)

\* aggregate_proofs: the condition under which it returns MalformedSrs.
srs_len_mismatch(vkey, wkey, n) ==
    ~has_correct_len(vkey, n) \/ ~has_correct_len(wkey, n)

\* The size check with an even size taken for a power of two.
tipp_malformed_even(a, b) == ~(Len(a) % 2 = 0) \/ Len(a) # Len(b)

\* prove_tipp: the condition under which it returns MalformedProofs.
tipp_malformed(a, b) == ~is_power_of_two(Len(a)) \/ Len(a) # Len(b)

\* prove_mipp: the condition under which it returns MalformedProofs.
mipp_malformed(c, r) == ~is_power_of_two(Len(c)) \/ Len(c) # Len(r)

\* aggregate_proofs: the batching scalar r.  The hashed derivation is commented
\* out and the loop breaks with one on its first iteration, whatever the
\* hash input (counter_nonce, com_ab, com_c) is.
derive_r(counter_nonce, com_ab, com_c) ==
    LET hash_input == <<counter_nonce, com_ab[1], com_ab[2], com_c[1], com_c[2]>>
    IN  1

\* counter_nonce += 1 on usize: a panic with overflow checks, a wrap without.
NonceMax == (2 ^ UsizeBits) - 1

\* gipa_tipp: the cross commitments and cross inner products of one round.
tipp_c_l(g) ==
    LET at == Len(g.m_a) \div 2
    IN  commit_pair(split_left(g.vkey, at), split_right(g.wkey, at),
                    SubSeq(g.m_a, at + 1, Len(g.m_a)), SubSeq(g.m_b, 1, at))
tipp_c_r(g) ==
    LET at == Len(g.m_a) \div 2
    IN  commit_pair(split_right(g.vkey, at), split_left(g.wkey, at),
                    SubSeq(g.m_a, 1, at), SubSeq(g.m_b, at + 1, Len(g.m_b)))
tipp_z_l(g) ==
    LET at == Len(g.m_a) \div 2
    IN  inner_product_pairing(SubSeq(g.m_a, at + 1, Len(g.m_a)), SubSeq(g.m_b, 1, at))
tipp_z_r(g) ==
    LET at == Len(g.m_a) \div 2
    IN  inner_product_pairing(SubSeq(g.m_a, 1, at), SubSeq(g.m_b, at + 1, Len(g.m_b)))

JoinTasks == {"c_l", "c_r", "z_l", "z_r"}
JoinIdle == [c_l |-> <<>>, c_r |-> <<>>, z_l |-> None, z_r |-> None, order |-> <<>>]
JoinDone(j) == Len(j.order) = Cardinality(JoinTasks)

\* rayon::join returns the results of its closures by position:
\* ((c_l, c_r), (z_l, z_r)).
join_results(j) == [c_l |-> j.c_l, c_r |-> j.c_r, z_l |-> j.z_l, z_r |-> j.z_r]

\* gipa_tipp: the hash input of the round's challenge.
tipp_hash_input(counter_nonce, transcript, x) ==
    <<counter_nonce, transcript, x.c_l[1], x.c_l[2], x.c_r[1], x.c_r[2], x.z_r, x.z_l>>

\* challenges.last().unwrap_or(&default_transcript)
last_or_zero(challenges) ==
    IF Len(challenges) = 0 THEN 0 ELSE challenges[Len(challenges)]

\* The fold of a round with m_a and m_b left at their length (no resize).
tipp_fold_unshrunk(g, x, c, c_inv) ==
    LET at == Len(g.m_a) \div 2
        a_left == SubSeq(g.m_a, 1, at)
        a_right == SubSeq(g.m_a, at + 1, Len(g.m_a))
        b_left == SubSeq(g.m_b, 1, at)
        b_right == SubSeq(g.m_b, at + 1, Len(g.m_b))
        a_fold == [i \in 1 .. at |->
                     IF i <= Len(a_right) THEN FrAdd(FrMul(a_right[i], c), a_left[i])
                     ELSE a_left[i]]
        b_fold == [i \in 1 .. at |->
                     IF i <= Len(b_right) THEN FrAdd(FrMul(b_right[i], c_inv), b_left[i])
                     ELSE b_left[i]]
    IN  [m_a |-> a_fold \o a_right,
         m_b |-> b_fold \o b_right,
         vkey |-> compress(split_left(g.vkey, at), split_right(g.vkey, at), c_inv),
         wkey |-> compress(split_left(g.wkey, at), split_right(g.wkey, at), c),
         comms |-> Append(g.comms, <<x.c_l, x.c_r>>),
         z_vec |-> Append(g.z_vec, <<x.z_l, x.z_r>>),
         challenges |-> Append(g.challenges, c),
         challenges_inv |-> Append(g.challenges_inv, c_inv)]

\* gipa_tipp: the state of the recursion after folding with (c, c_inv), where
\* x holds the round's cross commitments and inner products.
tipp_fold(g, x, c, c_inv) ==
    LET at == Len(g.m_a) \div 2
        a_left == SubSeq(g.m_a, 1, at)
        a_right == SubSeq(g.m_a, at + 1, Len(g.m_a))
        b_left == SubSeq(g.m_b, 1, at)
        b_right == SubSeq(g.m_b, at + 1, Len(g.m_b))
        a_fold == [i \in 1 .. at |->
                     IF i <= Len(a_right) THEN FrAdd(FrMul(a_right[i], c), a_left[i])
                     ELSE a_left[i]]
        b_fold == [i \in 1 .. at |->
                     IF i <= Len(b_right) THEN FrAdd(FrMul(b_right[i], c_inv), b_left[i])
                     ELSE b_left[i]]
    IN  [m_a |-> SubSeq(a_fold \o a_right, 1, Len(a_left)),
         m_b |-> SubSeq(b_fold \o b_right, 1, Len(b_right)),
         vkey |-> compress(split_left(g.vkey, at), split_right(g.vkey, at), c_inv),
         wkey |-> compress(split_left(g.wkey, at), split_right(g.wkey, at), c),
         comms |-> Append(g.comms, <<x.c_l, x.c_r>>),
         z_vec |-> Append(g.z_vec, <<x.z_l, x.z_r>>),
         challenges |-> Append(g.challenges, c),
         challenges_inv |-> Append(g.challenges_inv, c_inv)]

\* gipa_tipp: the state before the first round.
tipp_start(a, b, vkey, wkey) ==
    [m_a |-> a, m_b |-> b, vkey |-> vkey, wkey |-> wkey, comms |-> <<>>,
     z_vec |-> <<>>, challenges |-> <<>>, challenges_inv |-> <<>>]

\* gipa_tipp: the challenge loop run from the given nonce: the first non-zero
\* hash value (None when the nonce counter runs out first).
RECURSIVE tipp_challenge_from(_, _, _)
tipp_challenge_from(counter_nonce, transcript, x) ==
    LET c == fr_from_u128(Sha256_digest(tipp_hash_input(counter_nonce, transcript, x)))
    IN  IF FrInverse(c) # None THEN c
        ELSE IF counter_nonce = NonceMax THEN None
        ELSE tipp_challenge_from(counter_nonce + 1, transcript, x)

\* gipa_tipp: one round of the recursion run sequentially.
gipa_tipp_round(g) ==
    LET x == [c_l |-> tipp_c_l(g), c_r |-> tipp_c_r(g),
              z_l |-> tipp_z_l(g), z_r |-> tipp_z_r(g)]
        c == tipp_challenge_from(0, last_or_zero(g.challenges), x)
    IN  tipp_fold(g, x, FrInverse(c), c)

\* gipa_tipp: the first k rounds of the recursion.
RECURSIVE gipa_tipp_rounds(_, _)
gipa_tipp_rounds(g, k) ==
    IF k = 0 THEN g ELSE gipa_tipp_round(gipa_tipp_rounds(g, k - 1))

\* gipa_tipp: the whole recursion, "while m_a.len() > 1".
RECURSIVE gipa_tipp(_)
gipa_tipp(g) == IF Len(g.m_a) > 1 THEN gipa_tipp(gipa_tipp_round(g)) ELSE g

GipaIdle == tipp_start(<<>>, <<>>, [a |-> <<>>, b |-> <<>>], [a |-> <<>>, b |-> <<>>])

\* gipa_tipp: the final assertions on the lengths.
tipp_final_asserts(g) ==
    /\ Len(g.m_a) = 1 /\ Len(g.m_b) = 1
    /\ Len(g.vkey.a) = 1 /\ Len(g.vkey.b) = 1
    /\ Len(g.wkey.a) = 1 /\ Len(g.wkey.b) = 1

AggIdle ==
    [com_ab |-> <<>>, com_c |-> <<>>, r |-> None, r_vec |-> <<>>, a_r |-> <<>>,
     vkey_r_inv |-> [a |-> <<>>, b |-> <<>>], tipa_proof_ab |-> "none",
     tipa_proof_c |-> "none", ip_ab |-> None, agg_c |-> None,
     z |-> None]  \* z: the KZG challenge point of prove_tipp, None while it has none

\* Largest batch given to aggregate_proofs.
MaxProofs == 4

\* The vectors A, B, C of a batch of proofs.
A(ps) == [i \in 1 .. Len(ps) |-> ps[i].a]
B(ps) == [i \in 1 .. Len(ps) |-> ps[i].b]
C(ps) == [i \in 1 .. Len(ps) |-> ps[i].c]

\* ------------------------------------------------------------------------
\* gipa_mipp, prove_commitment_key_kzg_opening and the assembled proof (prove.rs)
\* ------------------------------------------------------------------------

\* gipa_mipp: the state before the first round.
mipp_start(c, r, vkey) ==
    [m_c |-> c, m_r |-> r, vkey |-> vkey, comms |-> <<>>, z_vec |-> <<>>,
     challenges |-> <<>>]

\* gipa_mipp: the cross products and cross commitments of one round.
mipp_cross(g) ==
    LET at == Len(g.m_c) \div 2
        c_left == SubSeq(g.m_c, 1, at)
        c_right == SubSeq(g.m_c, at + 1, Len(g.m_c))
        r_left == SubSeq(g.m_r, 1, at)
        r_right == SubSeq(g.m_r, at + 1, Len(g.m_r))
    IN  [z_r |-> multiexponentiation(c_left, r_right),
         z_l |-> multiexponentiation(c_right, r_left),
         tu_r |-> commit_single_g1(split_right(g.vkey, at), c_left),
         tu_l |-> commit_single_g1(split_left(g.vkey, at), c_right)]

\* gipa_mipp: the hash input of the round's challenge.
mipp_hash_input(counter_nonce, transcript, x) ==
    <<counter_nonce, transcript, x.tu_r[1], x.tu_r[2], x.tu_l[1], x.tu_l[2], x.z_r, x.z_l>>

\* gipa_mipp: the challenge loop: the first non-zero hash value.
RECURSIVE mipp_challenge_from(_, _, _)
mipp_challenge_from(counter_nonce, transcript, x) ==
    LET h == fr_from_u128(Sha256_digest(mipp_hash_input(counter_nonce, transcript, x)))
    IN  IF FrInverse(h) # None THEN h
        ELSE IF counter_nonce = NonceMax THEN None
        ELSE mipp_challenge_from(counter_nonce + 1, transcript, x)

\* The fold of gipa_mipp with the scalar vector folded by x in place of x_inv.
mipp_fold_scalars_with_x(g, cross, x, x_inv) ==
    LET at == Len(g.m_c) \div 2
        c_left == SubSeq(g.m_c, 1, at)
        c_right == SubSeq(g.m_c, at + 1, Len(g.m_c))
        r_left == SubSeq(g.m_r, 1, at)
        r_right == SubSeq(g.m_r, at + 1, Len(g.m_r))
    IN  [m_c |-> [i \in 1 .. at |-> FrAdd(FrMul(c_right[i], x), c_left[i])],
         m_r |-> [i \in 1 .. at |-> FrAdd(r_left[i], FrMul(r_right[i], x))],
         vkey |-> compress(split_left(g.vkey, at), split_right(g.vkey, at), x_inv),
         comms |-> Append(g.comms, <<cross.tu_l, cross.tu_r>>),
         z_vec |-> Append(g.z_vec, <<cross.z_l, cross.z_r>>),
         challenges |-> Append(g.challenges, x)]

\* gipa_mipp: the state after folding with (x, x_inv).
mipp_fold(g, cross, x, x_inv) ==
    LET at == Len(g.m_c) \div 2
        c_left == SubSeq(g.m_c, 1, at)
        c_right == SubSeq(g.m_c, at + 1, Len(g.m_c))
        r_left == SubSeq(g.m_r, 1, at)
        r_right == SubSeq(g.m_r, at + 1, Len(g.m_r))
    IN  [m_c |-> [i \in 1 .. at |-> FrAdd(FrMul(c_right[i], x), c_left[i])],
         m_r |-> [i \in 1 .. at |-> FrAdd(r_left[i], FrMul(r_right[i], x_inv))],
         vkey |-> compress(split_left(g.vkey, at), split_right(g.vkey, at), x_inv),
         comms |-> Append(g.comms, <<cross.tu_l, cross.tu_r>>),
         z_vec |-> Append(g.z_vec, <<cross.z_l, cross.z_r>>),
         challenges |-> Append(g.challenges, x)]

\* gipa_mipp: the whole recursion, "while m_c.len() > 1"; the loop breaks
\* with (x_inv, x), so x is the inverse of the hash value.
RECURSIVE gipa_mipp(_)
gipa_mipp(g) ==
    IF Len(g.m_c) > 1
    THEN LET cross == mipp_cross(g)
             h == mipp_challenge_from(0, last_or_zero(g.challenges), cross)
         IN  gipa_mipp(mipp_fold(g, cross, FrInverse(h), h))
    ELSE g

\* The quotient (f(X) - y) / (X - z) of the polynomial with coefficients f
\* (lowest first): q[d] = f[d+1], q[i] = f[i+1] + z * q[i+1].
RECURSIVE quotient_from(_, _, _)
quotient_from(f, z, i) ==
    IF i >= Len(f) THEN <<>>
    ELSE LET higher == quotient_from(f, z, i + 1)
             q_i == IF Len(higher) = 0 THEN f[i + 1]
                    ELSE FrAdd(f[i + 1], FrMul(z, higher[1]))
         IN  <<q_i>> \o higher

\* prove_commitment_key_kzg_opening: the pair of openings of the polynomial of
\* the transcript at kzg_challenge, against the alpha and the beta powers.  A
\* length mismatch returns Err(MalformedSrs), written <<Panic, Panic>>; past
\* it the product-form evaluation reads transcript[0] and panics on an empty
\* transcript.
prove_commitment_key_kzg_opening(powers_alpha, powers_beta, srs_powers_len, transcript, r_shift, kzg_challenge) ==
    LET coeffs == polynomial_coefficients_from_transcript(transcript, r_shift)
        quotient == quotient_from(coeffs, kzg_challenge, 1)
        getter == [i \in 1 .. srs_powers_len |->
                     IF i > Len(quotient) THEN 0 ELSE quotient[i]]
    IN  IF srs_powers_len # Len(coeffs) THEN <<Panic, Panic>>
        ELSE IF polynomial_evaluation_product_form_from_transcript(
                    transcript, kzg_challenge, r_shift) = Panic
        THEN Panic
        ELSE << multiexponentiation(powers_alpha, getter),
                multiexponentiation(powers_beta, getter) >>

\* An input of the verifier: the AggregateProof whose fields are the values the
\* steps of aggregate_proofs compute, with the openings taken at a given KZG
\* challenge point z.  aggregate_proofs itself never returns it: the loops for
\* the KZG challenge point in prove_tipp and prove_mipp have no break, so on a
\* batch of two or more proofs the call does not return, and on one proof it
\* panics (see TippKzgChallenge).
assemble_aggregate_proof(srs, ps, z) ==
    LET keys == get_commitment_keys(srs)
        vkey == keys[1]
        wkey == keys[2]
        com_ab == commit_pair(vkey, wkey, A(ps), B(ps))
        com_c == commit_single_g1(vkey, C(ps))
        r == derive_r(0, com_ab, com_c)
        r_vec == structured_scalar_power(Len(ps), r)
        r_inv == [i \in 1 .. Len(r_vec) |-> FrInverse(r_vec[i])]
        a_r == [i \in 1 .. Len(ps) |-> FrMul(ps[i].a, r_vec[i])]
        vkey_r_inv == scale(vkey, r_inv)
        t == gipa_tipp(tipp_start(a_r, B(ps), vkey_r_inv, wkey))
        m == gipa_mipp(mipp_start(C(ps), r_vec, vkey))
        m_challenges == Reverse(m.challenges)
    IN  [com_ab |-> com_ab,
         com_c |-> com_c,
         ip_ab |-> inner_product_pairing(a_r, B(ps)),
         agg_c |-> multiexponentiation(C(ps), r_vec),
         proof_ab |->
            [gipa |-> [comms |-> t.comms, z_vec |-> t.z_vec,
                       final_a |-> t.m_a[1], final_b |-> t.m_b[1],
                       final_vkey |-> first(t.vkey), final_wkey |-> first(t.wkey)],
             vkey_opening |-> prove_commitment_key_kzg_opening(
                                  vkey.a, vkey.b, srs.n, Reverse(t.challenges_inv),
                                  FrInverse(r), z),
             wkey_opening |-> prove_commitment_key_kzg_opening(
                                  wkey.a, wkey.b, srs.n, Reverse(t.challenges), 1, z)],
         proof_c |->
            [gipa |-> [comms |-> m.comms, z_vec |-> m.z_vec,
                       final_c |-> m.m_c[1], final_r |-> m.m_r[1],
                       final_vkey |-> first(m.vkey)],
             vkey_opening |-> prove_commitment_key_kzg_opening(
                                  vkey.a, vkey.b, srs.n,
                                  [i \in 1 .. Len(m_challenges) |-> FrInverse(m_challenges[i])],
                                  1, z)]]

\* ------------------------------------------------------------------------
\* PairingTuple (accumulator)
\* ------------------------------------------------------------------------

from_miller(m) == [miller |-> m, constant |-> FqkOne]
from_pair(m, c) == [miller |-> m, constant |-> c]
\* The sentinel: its constant is the zero of Fqk, which no merge changes and
\* no final exponentiation equals.
new_invalid == [miller |-> FqkOne, constant |-> FqkZero]
\* merge: miller *= other.miller; constant *= other.constant.
merge(t, other) ==
    [miller |-> FqkMul(t.miller, other.miller), constant |-> FqkMul(t.constant, other.constant)]
\* verify: final_exponentiation(miller) == constant.
verify(t) == final_exponentiation(t.miller) = t.constant

\* ------------------------------------------------------------------------
\* Verification of the TIPP and MIPP proofs (verify.rs)
\* ------------------------------------------------------------------------

\* The VerifierSRS of the secrets (alpha, beta) for batches of n proofs:
\* g, h, g^alpha, g^beta, h^alpha, h^beta, g^(alpha^(n+1)), g^(beta^(n+1)).
to_verifier_srs(srs) ==
    [n |-> srs.n, g |-> 1, h |-> 1,
     g_alpha |-> srs.alpha, g_beta |-> srs.beta,
     h_alpha |-> srs.alpha, h_beta |-> srs.beta,
     g_alpha_n1 |-> FrPow(srs.alpha, srs.n + 1),
     g_beta_n1 |-> FrPow(srs.beta, srs.n + 1)]

\* Number of rounds the verifier replays: comms zipped with z_vec.
gipa_rounds(gipa) == Min(Len(gipa.comms), Len(gipa.z_vec))

\* gipa_verify_tipp, lines 360-368: the hash input of a round, from the round's
\* ((t_l, u_l), (t_r, u_r)) and (z_l, z_r) as they are in the proof.
verify_tipp_hash_input(counter_nonce, transcript, comms_ab, z_comm) ==
    << counter_nonce, transcript, comms_ab[1][1], comms_ab[1][2], comms_ab[2][1],
       comms_ab[2][2], z_comm[2], z_comm[1] >>

\* gipa_verify_tipp, lines 358-380: the challenge loop run from the given nonce:
\* the first non-zero hash value (None when the nonce counter runs out first).
RECURSIVE verify_tipp_challenge_from(_, _, _, _)
verify_tipp_challenge_from(counter_nonce, transcript, comms_ab, z_comm) ==
    LET c == fr_from_u128(Sha256_digest(
                 verify_tipp_hash_input(counter_nonce, transcript, comms_ab, z_comm)))
    IN  IF FrInverse(c) # None THEN c
        ELSE IF counter_nonce = NonceMax THEN None
        ELSE verify_tipp_challenge_from(counter_nonce + 1, transcript, comms_ab, z_comm)

\* gipa_verify_tipp, lines 350-381: the hash values of the rounds, which are
\* the challenges_inv; the transcript of a round is the previous challenge.
RECURSIVE tipp_verify_hashes(_, _, _)
tipp_verify_hashes(gipa, i, hashes) ==
    IF i > gipa_rounds(gipa) THEN hashes
    ELSE LET transcript == IF Len(hashes) = 0 THEN 0 ELSE FrInverse(hashes[Len(hashes)])
         IN  tipp_verify_hashes(gipa, i + 1,
                 Append(hashes, verify_tipp_challenge_from(0, transcript, gipa.comms[i],
                                                           gipa.z_vec[i])))

\* The rescaling of gipa_verify_tipp with the left values raised to c_inv and
\* the right values to c.
RECURSIVE tipp_verify_fold_crossed(_, _, _, _, _)
tipp_verify_fold_crossed(gipa, challenges, challenges_inv, i, tuz) ==
    IF i > Len(challenges) THEN tuz
    ELSE LET c_l == gipa.comms[i][1]
             c_r == gipa.comms[i][2]
             z_l == gipa.z_vec[i][1]
             z_r == gipa.z_vec[i][2]
             c == challenges[i]
             c_inv == challenges_inv[i]
         IN  tipp_verify_fold_crossed(gipa, challenges, challenges_inv, i + 1,
                [t |-> FqkMul(FqkMul(tuz.t, FqkPow(c_l[1], c_inv)), FqkPow(c_r[1], c)),
                 u |-> FqkMul(FqkMul(tuz.u, FqkPow(c_l[2], c_inv)), FqkPow(c_r[2], c)),
                 z |-> FqkMul(FqkMul(tuz.z, FqkPow(z_l, c_inv)), FqkPow(z_r, c))])

\* gipa_verify_tipp, lines 423-435: T, U and Z rescaled by the rounds from i on.
RECURSIVE tipp_verify_fold(_, _, _, _, _)
tipp_verify_fold(gipa, challenges, challenges_inv, i, tuz) ==
    IF i > Len(challenges) THEN tuz
    ELSE LET c_l == gipa.comms[i][1]
             c_r == gipa.comms[i][2]
             z_l == gipa.z_vec[i][1]
             z_r == gipa.z_vec[i][2]
             c == challenges[i]
             c_inv == challenges_inv[i]
         IN  tipp_verify_fold(gipa, challenges, challenges_inv, i + 1,
                [t |-> FqkMul(FqkMul(tuz.t, FqkPow(c_l[1], c)), FqkPow(c_r[1], c_inv)),
                 u |-> FqkMul(FqkMul(tuz.u, FqkPow(c_l[2], c)), FqkPow(c_r[2], c_inv)),
                 z |-> FqkMul(FqkMul(tuz.z, FqkPow(z_l, c)), FqkPow(z_r, c_inv))])

\* gipa_verify_tipp with each hash value stored as the challenge and its
\* inverse as challenges_inv.
gipa_verify_tipp_unswapped(comm_ab, z, gipa) ==
    LET hashes == tipp_verify_hashes(gipa, 1, <<>>)
        inverses == [i \in 1 .. Len(hashes) |-> FrInverse(hashes[i])]
        tuz == tipp_verify_fold(gipa, hashes, inverses, 1,
                                [t |-> comm_ab[1], u |-> comm_ab[2], z |-> z])
    IN  [t |-> tuz.t, u |-> tuz.u, z |-> tuz.z,
         challenges |-> hashes, challenges_inv |-> inverses]

\* gipa_verify_tipp: ((T, U), Z, challenges, challenges_inv).
gipa_verify_tipp(comm_ab, z, gipa) ==
    LET hashes == tipp_verify_hashes(gipa, 1, <<>>)
        challenges == [i \in 1 .. Len(hashes) |-> FrInverse(hashes[i])]
        tuz == tipp_verify_fold(gipa, challenges, hashes, 1,
                                [t |-> comm_ab[1], u |-> comm_ab[2], z |-> z])
    IN  [t |-> tuz.t, u |-> tuz.u, z |-> tuz.z,
         challenges |-> challenges, challenges_inv |-> hashes]

\* verify_kzg_opening_g2, lines 461-480: ip1 * p2, the equation of the alpha power.
kzg_opening_g2_alpha(v_srs, final_vkey, vkey_opening, challenges, r_shift, kzg_challenge) ==
    LET vpoly_eval_z == polynomial_evaluation_product_form_from_transcript(
                            challenges, kzg_challenge, r_shift)
        p1 == miller_loop(v_srs.g, FrSub(final_vkey[1], FrMul(v_srs.h_alpha, vpoly_eval_z)))
        p2 == miller_loop(FrSub(v_srs.g_alpha, FrMul(v_srs.g, kzg_challenge)),
                          vkey_opening[1])
    IN  IF vpoly_eval_z = Panic THEN Panic ELSE FqkMul(FqkInverse(p1), p2)

\* verify_kzg_opening_g2, lines 484-503: iq1 * q2, the equation of the beta power.
kzg_opening_g2_beta(v_srs, final_vkey, vkey_opening, challenges, r_shift, kzg_challenge) ==
    LET vpoly_eval_z == polynomial_evaluation_product_form_from_transcript(
                            challenges, kzg_challenge, r_shift)
        q1 == miller_loop(v_srs.g, FrSub(final_vkey[2], FrMul(v_srs.h_beta, vpoly_eval_z)))
        q2 == miller_loop(FrSub(v_srs.g_beta, FrMul(v_srs.g, kzg_challenge)),
                          vkey_opening[2])
    IN  IF vpoly_eval_z = Panic THEN Panic ELSE FqkMul(FqkInverse(q1), q2)

\* verify_kzg_opening_g2: both equations in one tuple.  Each equation evaluates
\* the product form, which reads transcript[0]: with no challenge the call panics.
verify_kzg_opening_g2(v_srs, final_vkey, vkey_opening, challenges, r_shift, kzg_challenge) ==
    IF Len(challenges) = 0 THEN Panic
    ELSE from_miller(FqkMul(
             kzg_opening_g2_beta(v_srs, final_vkey, vkey_opening, challenges, r_shift,
                                 kzg_challenge),
             kzg_opening_g2_alpha(v_srs, final_vkey, vkey_opening, challenges, r_shift,
                                  kzg_challenge)))

\* verify_kzg_opening_g1, lines 523-539: ip1 * p2, the equation of the alpha power.
kzg_opening_g1_alpha(v_srs, final_wkey, wkey_opening, challenges, r_shift, kzg_challenge) ==
    LET wkey_poly_eval == polynomial_evaluation_product_form_from_transcript(
                              challenges, kzg_challenge, r_shift)
        p1 == miller_loop(FrSub(final_wkey[1], FrMul(v_srs.g_alpha_n1, wkey_poly_eval)),
                          v_srs.h)
        p2 == miller_loop(wkey_opening[1],
                          FrSub(v_srs.h_alpha, FrMul(v_srs.h, kzg_challenge)))
    IN  IF wkey_poly_eval = Panic THEN Panic ELSE FqkMul(FqkInverse(p1), p2)

\* verify_kzg_opening_g1, lines 543-559: iq1 * q2, the equation of the beta power.
kzg_opening_g1_beta(v_srs, final_wkey, wkey_opening, challenges, r_shift, kzg_challenge) ==
    LET wkey_poly_eval == polynomial_evaluation_product_form_from_transcript(
                              challenges, kzg_challenge, r_shift)
        q1 == miller_loop(FrSub(final_wkey[2], FrMul(v_srs.g_beta_n1, wkey_poly_eval)),
                          v_srs.h)
        q2 == miller_loop(wkey_opening[2],
                          FrSub(v_srs.h_beta, FrMul(v_srs.h, kzg_challenge)))
    IN  IF wkey_poly_eval = Panic THEN Panic ELSE FqkMul(FqkInverse(q1), q2)

\* verify_kzg_opening_g1: both equations in one tuple.  Each equation evaluates
\* the product form, which reads transcript[0]: with no challenge the call panics.
verify_kzg_opening_g1(v_srs, final_wkey, wkey_opening, challenges, r_shift, kzg_challenge) ==
    IF Len(challenges) = 0 THEN Panic
    ELSE from_miller(FqkMul(
             kzg_opening_g1_beta(v_srs, final_wkey, wkey_opening, challenges, r_shift,
                                 kzg_challenge),
             kzg_opening_g1_alpha(v_srs, final_wkey, wkey_opening, challenges, r_shift,
                                  kzg_challenge)))

\* verify_tipp and verify_mipp: the KZG challenge point.  The hashed derivation
\* is commented out and the loop breaks with one on its first iteration.
verify_kzg_challenge(counter_nonce, first_challenge, final_keys) == 1

\* verify_tipp, lines 245 and 268: challenges.first().unwrap() and
\* r_shift.inverse().unwrap() panic on None.
verify_tipp_panics(proof, r_shift) ==
    gipa_rounds(proof.gipa) = 0 \/ FrInverse(r_shift) = None

\* verify_tipp, lines 263-270: the tuple of the opening of v.
verify_tipp_vtuple(v_srs, comm_ab, z, proof, r_shift) ==
    LET g == gipa_verify_tipp(comm_ab, z, proof.gipa)
        challenges == Reverse(g.challenges)
        c == verify_kzg_challenge(0, challenges[1],
                                  <<proof.gipa.final_vkey, proof.gipa.final_wkey>>)
    IN  verify_kzg_opening_g2(v_srs, proof.gipa.final_vkey, proof.vkey_opening,
                              Reverse(g.challenges_inv), FrInverse(r_shift), c)

\* verify_tipp, lines 272-279: the tuple of the opening of w.
verify_tipp_wtuple(v_srs, comm_ab, z, proof, r_shift) ==
    LET g == gipa_verify_tipp(comm_ab, z, proof.gipa)
        challenges == Reverse(g.challenges)
        c == verify_kzg_challenge(0, challenges[1],
                                  <<proof.gipa.final_vkey, proof.gipa.final_wkey>>)
    IN  verify_kzg_opening_g1(v_srs, proof.gipa.final_wkey, proof.wkey_opening,
                              challenges, 1, c)

\* verify_tipp, lines 287-313: the tuple of the inner-product check
\* e(A,B) e(A,v1) e(w1,B) e(A,v2) e(w2,B) = Z * T * U.
verify_tipp_check(v_srs, comm_ab, z, proof, r_shift) ==
    LET g == gipa_verify_tipp(comm_ab, z, proof.gipa)
        fvkey == proof.gipa.final_vkey
        fwkey == proof.gipa.final_wkey
        final_a == proof.gipa.final_a
        final_b == proof.gipa.final_b
        left == <<final_a, final_a, fwkey[1], final_a, fwkey[2]>>
        right == <<final_b, fvkey[1], final_b, fvkey[2], final_b>>
        out == FqkMul(FqkMul(FqkMul(FqkOne, g.z), g.t), g.u)
    IN  from_pair(pairing_miller_affine(left, right), out)

\* verify_tipp: vtuple.merge(wtuple); vtuple.merge(check).
verify_tipp(v_srs, comm_ab, z, proof, r_shift) ==
    merge(merge(verify_tipp_vtuple(v_srs, comm_ab, z, proof, r_shift),
                verify_tipp_wtuple(v_srs, comm_ab, z, proof, r_shift)),
          verify_tipp_check(v_srs, comm_ab, z, proof, r_shift))

\* gipa_verify_mipp, lines 693-722: the hash values of the rounds.
RECURSIVE mipp_verify_hashes(_, _, _)
mipp_verify_hashes(gipa, i, hashes) ==
    IF i > gipa_rounds(gipa) THEN hashes
    ELSE LET transcript == IF Len(hashes) = 0 THEN 0 ELSE FrInverse(hashes[Len(hashes)])
             x == [tu_l |-> gipa.comms[i][1], tu_r |-> gipa.comms[i][2],
                   z_l |-> gipa.z_vec[i][1], z_r |-> gipa.z_vec[i][2]]
         IN  mipp_verify_hashes(gipa, i + 1,
                                Append(hashes, mipp_challenge_from(0, transcript, x)))

\* gipa_verify_mipp, lines 767-775: T, U and Z rescaled by the rounds from i on.
RECURSIVE mipp_verify_fold(_, _, _, _, _)
mipp_verify_fold(gipa, challenges, challenges_inv, i, tuz) ==
    IF i > Len(challenges) THEN tuz
    ELSE LET c_l == gipa.comms[i][1]
             c_r == gipa.comms[i][2]
             z_l == gipa.z_vec[i][1]
             z_r == gipa.z_vec[i][2]
             c == challenges[i]
             c_inv == challenges_inv[i]
         IN  mipp_verify_fold(gipa, challenges, challenges_inv, i + 1,
                [t |-> FqkMul(FqkMul(tuz.t, FqkPow(c_l[1], c)), FqkPow(c_r[1], c_inv)),
                 u |-> FqkMul(FqkMul(tuz.u, FqkPow(c_l[2], c)), FqkPow(c_r[2], c_inv)),
                 z |-> FrAdd(FrAdd(tuz.z, FrMul(z_l, c)), FrMul(z_r, c_inv))])

\* gipa_verify_mipp: ((T, U), Z, challenges, challenges_inv).
gipa_verify_mipp(com_c, z, gipa) ==
    LET hashes == mipp_verify_hashes(gipa, 1, <<>>)
        challenges == [i \in 1 .. Len(hashes) |-> FrInverse(hashes[i])]
        tuz == mipp_verify_fold(gipa, challenges, hashes, 1,
                                [t |-> com_c[1], u |-> com_c[2], z |-> z])
    IN  [t |-> tuz.t, u |-> tuz.u, z |-> tuz.z,
         challenges |-> challenges, challenges_inv |-> hashes]

\* verify_mipp, line 597: challenges.first().unwrap() panics on None.
verify_mipp_panics(proof) == gipa_rounds(proof.gipa) = 0

\* verify_mipp, lines 626-627: b = (final_c ^ final_r == com_z).
mipp_scalar_check(agg_c, proof) ==
    multiexponentiation(<<proof.gipa.final_c>>, <<proof.gipa.final_r>>)
        = gipa_verify_mipp(<<FqkOne, FqkOne>>, agg_c, proof.gipa).z

\* verify_mipp, lines 637-644: the tuple of the opening of v.
verify_mipp_vtuple(v_srs, com_c, agg_c, proof) ==
    LET g == gipa_verify_mipp(com_c, agg_c, proof.gipa)
        challenges == Reverse(g.challenges)
        c == verify_kzg_challenge(0, challenges[1], proof.gipa.final_vkey)
    IN  verify_kzg_opening_g2(v_srs, proof.gipa.final_vkey, proof.vkey_opening,
                              Reverse(g.challenges_inv), 1, c)

\* verify_mipp, lines 649-662: the tuple of e(C,v1) e(C,v2) = T * U.
verify_mipp_pair(v_srs, com_c, agg_c, proof) ==
    LET g == gipa_verify_mipp(com_c, agg_c, proof.gipa)
        final_c == proof.gipa.final_c
        left == <<final_c, final_c>>
        right == <<proof.gipa.final_vkey[1], proof.gipa.final_vkey[2]>>
        out == FqkMul(FqkMul(FqkOne, g.t), g.u)
    IN  from_pair(pairing_miller_affine(left, right), out)

\* verify_mipp: the invalid tuple when the scalar check fails, else
\* vtuple.merge(pair).
verify_mipp(v_srs, com_c, agg_c, proof) ==
    IF ~mipp_scalar_check(agg_c, proof) THEN new_invalid
    ELSE merge(verify_mipp_vtuple(v_srs, com_c, agg_c, proof),
               verify_mipp_pair(v_srs, com_c, agg_c, proof))

\* verify_aggregate_proof, lines 42-60: the batching scalar r, one whatever
\* the hash input is.
verify_derive_r(counter_nonce, com_ab, com_c) == 1

\* verify_aggregate_proof, lines 62-66 with the check made on the first
\* statement only.
public_inputs_malformed_first_only(public_inputs, pvk) ==
    Len(public_inputs) > 0 /\ (Len(public_inputs[1]) + 1) # Len(pvk.ic)

\* verify_aggregate_proof, lines 62-66: some statement's length is not that of ic.
public_inputs_malformed(public_inputs, pvk) ==
    \E i \in 1 .. Len(public_inputs) : (Len(public_inputs[i]) + 1) # Len(pvk.ic)

\* verify_aggregate_proof, lines 106-109: r_sum = (r^n - 1) / (r - 1); None
\* stands for the panic of inverse().unwrap() when r is one.
verify_r_sum(r, n) ==
    IF FrInverse(FrSub(r, 1)) = None THEN None
    ELSE FrMul(FrSub(FrPow(r, n), 1), FrInverse(FrSub(r, 1)))

\* ------------------------------------------------------------------------
\* Bounds
\* ------------------------------------------------------------------------

\* Longest transcript given to the polynomial utilities.
MaxTranscript == 3

RECURSIVE SeqsUpTo(_, _)
SeqsUpTo(S, n) ==
    IF n = 0 THEN {<<>>}
    ELSE LET shorter == SeqsUpTo(S, n - 1)
         IN  shorter \cup {Append(s, x) : s \in {q \in shorter : Len(q) = n - 1}, x \in S}

\* ------------------------------------------------------------------------
\* State
\* ------------------------------------------------------------------------

VARIABLES
    poly_in,      \* the call's arguments [transcript, z, r_shift]
    poly_coeffs,  \* result of polynomial_coefficients_from_transcript, <<>> before the call
    poly_eval,    \* result of the product-form evaluation, or None
    proofs,           \* aggregate_proofs: the batch, a list of [a, b, c]
    ip_srs,           \* aggregate_proofs: the SRS [alpha, beta, n, vlen, wlen]
    overflow_checks,  \* whether the build panics on integer overflow (else it wraps)
    pc,               \* position in aggregate_proofs and its callees
    counter_nonce,    \* the running Fiat-Shamir loop's nonce
    agg,              \* locals of aggregate_proofs
    gipa,             \* locals of gipa_tipp
    join,             \* results of the rayon::join closures of the current round
    agg_result,       \* what aggregate_proofs returned, or how it ended
    v_srs,          \* verify_aggregate_proof: the VerifierSRS
    public_inputs,  \* verify_aggregate_proof: the statements, a list of lists of scalars
    proof,          \* verify_aggregate_proof: the AggregateProof
    vpc,            \* position in the body of verify_aggregate_proof
    v_r,            \* the batching scalar r, None before its derivation
    task,           \* the spawned tasks: their state and the tuple they computed
    chan,           \* the channel (send_tuple, rcv_tuple)
    v_result,       \* what verify_aggregate_proof returned, or how it ended
    rescale_in,     \* the rescaling of aggregate_proofs: its inputs [proofs, alpha, beta, r]
    rescale_out,    \* the rescaling of aggregate_proofs: its position and the values it has computed
    batch_in,       \* create_proof_batch_priority: its arguments [circuits, vk, r_s, s_s]
    bpc,            \* position in create_proof_batch_priority
    provers,        \* the synthesized circuits
    batch_proofs,   \* the local proofs of the final loop
    batch_result,   \* what create_proof_batch_priority returned, or how it ended
    full_assignment,      \* the assignment every operation is applied to
    partial_assignments,  \* the assignments of the chunks, in order
    combined,             \* the assignment extended with the chunks
    next_chunk,           \* how many chunks combined has been extended with
    epc,                  \* position in the construction: building, extending, done
    assignments,  \* two constraint systems: [self, other], ProvingAssignments
    enforced,  \* how many enforce calls the entries of each one come from
    returned,  \* the last call on them, what it returned and the assignment before it
    calls,     \* how many calls have been made on them
    apc        \* "off", "ops" while calls are made, "aborted" after a panic

polyVars == <<poly_in, poly_coeffs, poly_eval>>
aggVars == <<proofs, ip_srs, overflow_checks, pc, counter_nonce, agg, gipa, join, agg_result>>
verVars == <<v_srs, public_inputs, proof, vpc, v_r, task, chan, v_result>>
rescaleVars == <<rescale_in, rescale_out>>
batchVars == <<batch_in, bpc, provers, batch_proofs, batch_result>>
extendVars == <<full_assignment, partial_assignments, combined, next_chunk, epc>>
assignVars == <<assignments, enforced, returned, calls, apc>>
extVars == <<rescaleVars, batchVars, extendVars, assignVars>>
vars == <<polyVars, aggVars, verVars, extVars>>

PolyIdle ==
    /\ poly_in = [transcript |-> <<>>, z |-> 0, r_shift |-> 0]
    /\ poly_coeffs = <<>>
    /\ poly_eval = None

AggOff ==
    /\ proofs = <<>>
    /\ ip_srs = [alpha |-> 0, beta |-> 0, n |-> 0, vlen |-> 0, wlen |-> 0]
    /\ overflow_checks = FALSE
    /\ pc = "off"
    /\ counter_nonce = 0
    /\ agg = AggIdle
    /\ gipa = GipaIdle
    /\ join = JoinIdle
    /\ agg_result = "none"

\* No tuple computed yet.
NoTuple == [miller |-> FqkZero, constant |-> FqkZero]
TaskIdle == [st |-> "none", tuple |-> NoTuple]
NoProof ==
    [com_ab |-> <<FqkOne, FqkOne>>, com_c |-> <<FqkOne, FqkOne>>, ip_ab |-> FqkOne,
     agg_c |-> 0,
     proof_ab |-> [gipa |-> [comms |-> <<>>, z_vec |-> <<>>, final_a |-> 0, final_b |-> 0,
                             final_vkey |-> <<0, 0>>, final_wkey |-> <<0, 0>>],
                   vkey_opening |-> <<0, 0>>, wkey_opening |-> <<0, 0>>],
     proof_c |-> [gipa |-> [comms |-> <<>>, z_vec |-> <<>>, final_c |-> 0, final_r |-> 0,
                            final_vkey |-> <<0, 0>>],
                  vkey_opening |-> <<0, 0>>]]

VerOff ==
    /\ v_srs = to_verifier_srs([alpha |-> 0, beta |-> 0, n |-> 0])
    /\ public_inputs = <<>>
    /\ proof = NoProof
    /\ vpc = "off"
    /\ v_r = None
    /\ task = [tipp |-> TaskIdle, mipp |-> TaskIdle]
    /\ chan = [items |-> <<>>, receiver |-> FALSE]
    /\ v_result = "none"

RescaleNone == [st |-> "none", com_ab |-> <<>>, computed_com_ab |-> <<>>, a_r |-> <<>>, vkey_r_inv |-> [a |-> <<>>, b |-> <<>>], counter_nonce |-> 0]
RescaleIdle ==
    /\ rescale_in = [proofs |-> <<>>, alpha |-> 0, beta |-> 0, r |-> 0]
    /\ rescale_out = RescaleNone

BatchOff ==
    /\ batch_in = [circuits |-> <<>>, vk |-> [alpha_g1 |-> 0, beta_g1 |-> 0, beta_g2 |-> 0,
                                             delta_g1 |-> 0, delta_g2 |-> 0],
                   r_s |-> <<>>, s_s |-> <<>>]
    /\ bpc = "off"
    /\ provers = <<>>
    /\ batch_proofs = <<>>
    /\ batch_result = "none"

\* ProvingAssignment::new, lines 94-105; a DensityTracker is its bit vector and
\* its count of set bits.
DensityTracker_new == [bv |-> <<>>, total_density |-> 0]
ProvingAssignment_new ==
    [a_aux_density |-> DensityTracker_new, b_input_density |-> DensityTracker_new,
     b_aux_density |-> DensityTracker_new, a |-> <<>>, b |-> <<>>, c |-> <<>>,
     input_assignment |-> <<>>, aux_assignment |-> <<>>]

ExtendOff ==
    /\ full_assignment = ProvingAssignment_new
    /\ partial_assignments = <<>>
    /\ combined = ProvingAssignment_new
    /\ next_chunk = 0
    /\ epc = "off"

\* No call made yet on the constraint systems.
NoCall == [op |-> "none", target |-> "self", ok |-> TRUE, kind |-> "none", index |-> 0,
           value |-> 0, before |-> ProvingAssignment_new]
AssignOff ==
    /\ assignments = [self |-> ProvingAssignment_new, other |-> ProvingAssignment_new]
    /\ enforced = [self |-> 0, other |-> 0]
    /\ returned = NoCall
    /\ calls = 0
    /\ apc = "off"

ExtIdle == RescaleIdle /\ BatchOff /\ ExtendOff /\ AssignOff

\* ------------------------------------------------------------------------
\* Specification SpecPoly: the two polynomial utilities on arbitrary inputs
\* ------------------------------------------------------------------------

PolyInit ==
    /\ poly_in \in [transcript : SeqsUpTo(Fr, MaxTranscript), z : Fr, r_shift : Fr]
    /\ poly_coeffs = <<>>
    /\ poly_eval = None
    /\ AggOff
    /\ VerOff
    /\ ExtIdle

PolyCoefficients ==
    /\ poly_coeffs = <<>>
    /\ poly_coeffs' = polynomial_coefficients_from_transcript(poly_in.transcript,
                                                              poly_in.r_shift)
    /\ UNCHANGED <<poly_in, poly_eval, aggVars, verVars, extVars>>

PolyEvaluate ==
    /\ poly_eval = None
    /\ poly_eval' = polynomial_evaluation_product_form_from_transcript(
                        poly_in.transcript, poly_in.z, poly_in.r_shift)
    /\ UNCHANGED <<poly_in, poly_coeffs, aggVars, verVars, extVars>>

PolyNext == PolyCoefficients \/ PolyEvaluate

SpecPoly == PolyInit /\ [][PolyNext]_vars

\* ------------------------------------------------------------------------
\* Specification SpecAgg: one call of aggregate_proofs
\* ------------------------------------------------------------------------


KeyLens(n) == {m \in {n - 1, n, n + 1} : m >= 0}

AggInit ==
    /\ proofs \in SeqsUpTo(ProofPool, MaxProofs)
    /\ \E secrets \in SrsSecrets :
         \E vlen \in KeyLens(Len(proofs)), wlen \in KeyLens(Len(proofs)) :
            ip_srs = [alpha |-> secrets[1], beta |-> secrets[2], n |-> Len(proofs),
                      vlen |-> vlen, wlen |-> wlen]
    /\ overflow_checks \in BOOLEAN
    /\ pc = "start"
    /\ counter_nonce = 0
    /\ agg = AggIdle
    /\ gipa = GipaIdle
    /\ join = JoinIdle
    /\ agg_result = "none"
    /\ PolyIdle
    /\ VerOff
    /\ ExtIdle

\* aggregate_proofs, lines 33-36: the commitment keys must have the batch's length.
AggCheckSrs ==
    /\ pc = "start"
    /\ LET keys == get_commitment_keys(ip_srs)
       IN  IF srs_len_mismatch(keys[1], keys[2], Len(proofs))
           THEN /\ agg_result' = "Err(MalformedSrs)"
                /\ pc' = "done"
           ELSE /\ pc' = "commit"
                /\ UNCHANGED agg_result
    /\ UNCHANGED <<proofs, ip_srs, overflow_checks, counter_nonce, agg, gipa, join, polyVars, verVars, extVars>>

\* aggregate_proofs, lines 43-48: com_ab and com_c.
AggCommit ==
    /\ pc = "commit"
    /\ LET keys == get_commitment_keys(ip_srs)
       IN  agg' = [agg EXCEPT !.com_ab = commit_pair(keys[1], keys[2], A(proofs), B(proofs)),
                              !.com_c = commit_single_g1(keys[1], C(proofs))]
    /\ counter_nonce' = 0
    /\ pc' = "derive_r"
    /\ UNCHANGED <<proofs, ip_srs, overflow_checks, gipa, join, agg_result, polyVars, verVars, extVars>>

\* aggregate_proofs, lines 53-69: the loop deriving r (it breaks on its first iteration).
AggDeriveR ==
    /\ pc = "derive_r"
    /\ agg' = [agg EXCEPT !.r = derive_r(counter_nonce, agg.com_ab, agg.com_c)]
    /\ pc' = "rescale"
    /\ UNCHANGED <<proofs, ip_srs, overflow_checks, counter_nonce, gipa, join, agg_result,
                   polyVars, verVars, extVars>>

\* aggregate_proofs, lines 71-86: r_vec, its inverses, A^r and v^(r^-1).
AggRescale ==
    /\ pc = "rescale"
    /\ LET keys == get_commitment_keys(ip_srs)
           r_vec == structured_scalar_power(Len(proofs), agg.r)
           r_inv == [i \in 1 .. Len(r_vec) |-> FrInverse(r_vec[i])]
           a == A(proofs)
       IN  IF \E i \in 1 .. Len(r_inv) : r_inv[i] = None
           THEN /\ agg_result' = "panic(unwrap on None)"
                /\ pc' = "aborted"
                /\ UNCHANGED agg
           ELSE /\ agg' = [agg EXCEPT
                             !.r_vec = r_vec,
                             !.a_r = [i \in 1 .. Min(Len(a), Len(r_vec)) |->
                                         FrMul(a[i], r_vec[i])],
                             !.vkey_r_inv = scale(keys[1], r_inv)]
                /\ pc' = "prove_tipp"
                /\ UNCHANGED agg_result
    /\ UNCHANGED <<proofs, ip_srs, overflow_checks, counter_nonce, gipa, join, polyVars, verVars, extVars>>

\* prove_tipp, lines 129-133: the size check, then gipa_tipp starts.
ProveTippEntry ==
    /\ pc = "prove_tipp"
    /\ IF tipp_malformed(agg.a_r, B(proofs))
       THEN /\ agg' = [agg EXCEPT !.tipa_proof_ab = "Err(MalformedProofs)"]
            /\ pc' = "prove_mipp"
            /\ UNCHANGED gipa
       ELSE /\ gipa' = tipp_start(agg.a_r, B(proofs), agg.vkey_r_inv,
                                  get_commitment_keys(ip_srs)[2])
            /\ pc' = "gipa_loop"
            /\ UNCHANGED agg
    /\ UNCHANGED <<proofs, ip_srs, overflow_checks, counter_nonce, join, agg_result, polyVars, verVars, extVars>>

\* gipa_tipp, lines 210-236: a round starts and the four closures are handed to rayon::join.
GipaSplit ==
    /\ pc = "gipa_loop"
    /\ Len(gipa.m_a) > 1
    /\ join' = JoinIdle
    /\ pc' = "gipa_join"
    /\ UNCHANGED <<proofs, ip_srs, overflow_checks, counter_nonce, agg, gipa, agg_result,
                   polyVars, verVars, extVars>>

\* gipa_tipp, lines 226-233: one closure of the joins runs; they run in any order.
GipaJoinTask ==
    /\ pc = "gipa_join"
    /\ \E t \in JoinTasks :
         /\ \A k \in 1 .. Len(join.order) : join.order[k] # t
         /\ join' = [join EXCEPT
                       ![t] = CASE t = "c_l" -> tipp_c_l(gipa)
                                [] t = "c_r" -> tipp_c_r(gipa)
                                [] t = "z_l" -> tipp_z_l(gipa)
                                [] t = "z_r" -> tipp_z_r(gipa),
                       !.order = Append(@, t)]
    /\ UNCHANGED <<proofs, ip_srs, overflow_checks, pc, counter_nonce, agg, gipa, agg_result,
                   polyVars, verVars, extVars>>

\* gipa_tipp, lines 237-245: the joins have returned; the challenge loop starts.
GipaJoinReturn ==
    /\ pc = "gipa_join"
    /\ JoinDone(join)
    /\ counter_nonce' = 0
    /\ pc' = "gipa_challenge"
    /\ UNCHANGED <<proofs, ip_srs, overflow_checks, agg, gipa, join, agg_result, polyVars, verVars, extVars>>

\* The challenge loop of gipa_tipp breaking on whatever the hash gives: zero is
\* recorded as it is, with zero for its inverse.
GipaChallenge_recording_zero ==
    /\ pc = "gipa_challenge"
    /\ LET x == join_results(join)
           d == Sha256_digest(tipp_hash_input(counter_nonce, last_or_zero(gipa.challenges), x))
           c == fr_from_u128(d)
           c_inv == IF c = 0 THEN 0 ELSE FrInverse(c)
       IN  /\ gipa' = tipp_fold(gipa, x, c_inv, c)
           /\ join' = JoinIdle
           /\ pc' = "gipa_loop"
           /\ UNCHANGED <<counter_nonce, agg_result>>
    /\ UNCHANGED <<proofs, ip_srs, overflow_checks, agg, polyVars, verVars, extVars>>

\* gipa_tipp, lines 247-304: one iteration of the challenge loop; on a non-zero
\* hash the loop breaks with (c_inv, c) and the round folds with them.
GipaChallenge ==
    /\ pc = "gipa_challenge"
    /\ LET x == join_results(join)
           d == Sha256_digest(tipp_hash_input(counter_nonce, last_or_zero(gipa.challenges), x))
           c == fr_from_u128(d)
           c_inv == FrInverse(c)
       IN  IF c_inv # None
           THEN /\ gipa' = tipp_fold(gipa, x, c_inv, c)
                /\ join' = JoinIdle
                /\ pc' = "gipa_loop"
                /\ UNCHANGED <<counter_nonce, agg_result>>
           ELSE IF counter_nonce < NonceMax
           THEN /\ counter_nonce' = counter_nonce + 1
                /\ UNCHANGED <<gipa, join, pc, agg_result>>
           ELSE IF overflow_checks
           THEN /\ agg_result' = "panic(add with overflow)"
                /\ pc' = "aborted"
                /\ UNCHANGED <<gipa, join, counter_nonce>>
           ELSE /\ counter_nonce' = 0
                /\ UNCHANGED <<gipa, join, pc, agg_result>>
    /\ UNCHANGED <<proofs, ip_srs, overflow_checks, agg, polyVars, verVars, extVars>>

\* gipa_tipp, lines 307-325, and prove_tipp, lines 138-143: the recursion has
\* ended; the final lengths are asserted, both challenge lists are reversed
\* and r_shift is inverted.
GipaFinish ==
    /\ pc = "gipa_loop"
    /\ Len(gipa.m_a) <= 1
    /\ IF ~tipp_final_asserts(gipa)
       THEN /\ agg_result' = "panic(assertion failed)"
            /\ pc' = "aborted"
            /\ UNCHANGED <<gipa, counter_nonce>>
       ELSE IF FrInverse(agg.r) = None
       THEN /\ agg_result' = "panic(unwrap on None)"
            /\ pc' = "aborted"
            /\ UNCHANGED <<gipa, counter_nonce>>
       ELSE /\ gipa' = [gipa EXCEPT !.challenges = Reverse(@),
                                    !.challenges_inv = Reverse(@)]
            /\ counter_nonce' = 0
            /\ pc' = "tipp_kzg"
            /\ UNCHANGED agg_result
    /\ UNCHANGED <<proofs, ip_srs, overflow_checks, agg, join, polyVars, verVars, extVars>>

\* prove_tipp, lines 144-160: one iteration of the loop for the KZG challenge
\* point.  It reads challenges.first(), builds the hash input and increments
\* the nonce; the hashed derivation and its break are commented out.
TippKzgChallenge ==
    /\ pc = "tipp_kzg"
    /\ IF Len(gipa.challenges) = 0
       THEN /\ agg_result' = "panic(unwrap on None)"
            /\ pc' = "aborted"
            /\ UNCHANGED counter_nonce
       ELSE IF counter_nonce < NonceMax
       THEN /\ counter_nonce' = counter_nonce + 1
            /\ UNCHANGED <<pc, agg_result>>
       ELSE IF overflow_checks
       THEN /\ agg_result' = "panic(add with overflow)"
            /\ pc' = "aborted"
            /\ UNCHANGED counter_nonce
       ELSE /\ counter_nonce' = 0
            /\ UNCHANGED <<pc, agg_result>>
    /\ UNCHANGED <<proofs, ip_srs, overflow_checks, agg, gipa, join, polyVars, verVars, extVars>>

\* prove_mipp, lines 581-585: the size check (gipa_mipp would start after it).
ProveMippEntry ==
    /\ pc = "prove_mipp"
    /\ IF mipp_malformed(C(proofs), agg.r_vec)
       THEN /\ agg' = [agg EXCEPT !.tipa_proof_c = "Err(MalformedProofs)"]
            /\ pc' = "finish"
       ELSE /\ pc' = "gipa_mipp"
            /\ UNCHANGED agg
    /\ UNCHANGED <<proofs, ip_srs, overflow_checks, counter_nonce, gipa, join, agg_result,
                   polyVars, verVars, extVars>>

\* aggregate_proofs, lines 95-109: ip_ab, agg_c, the assertion on the rescaled
\* commitment, and the result; "?" returns the error of prove_tipp, then of prove_mipp.
AggFinish ==
    /\ pc = "finish"
    /\ LET keys == get_commitment_keys(ip_srs)
           computed_com_ab == commit_pair(agg.vkey_r_inv, keys[2], agg.a_r, B(proofs))
       IN  IF agg.com_ab # computed_com_ab
           THEN /\ agg_result' = "panic(assertion failed)"
                /\ pc' = "aborted"
                /\ UNCHANGED agg
           ELSE /\ agg' = [agg EXCEPT
                             !.ip_ab = inner_product_pairing(agg.a_r, B(proofs)),
                             !.agg_c = multiexponentiation(C(proofs), agg.r_vec)]
                /\ agg_result' =
                     IF agg.tipa_proof_ab # "Ok" THEN agg.tipa_proof_ab
                     ELSE IF agg.tipa_proof_c # "Ok" THEN agg.tipa_proof_c
                     ELSE "Ok"
                /\ pc' = "done"
    /\ UNCHANGED <<proofs, ip_srs, overflow_checks, counter_nonce, gipa, join, polyVars, verVars, extVars>>

AggNext ==
    \/ AggCheckSrs
    \/ AggCommit
    \/ AggDeriveR
    \/ AggRescale
    \/ ProveTippEntry
    \/ GipaSplit
    \/ GipaJoinTask
    \/ GipaJoinReturn
    \/ GipaChallenge
    \/ GipaFinish
    \/ TippKzgChallenge
    \/ ProveMippEntry
    \/ AggFinish

SpecAgg == AggInit /\ [][AggNext]_vars

\* The calling thread runs aggregate_proofs to its end: a step that can be
\* taken is taken.
FairSpecAgg == SpecAgg /\ WF_vars(AggNext)

\* ------------------------------------------------------------------------
\* Properties of aggregate_proofs (SpecAgg, FairSpecAgg)
\* ------------------------------------------------------------------------

PowerOfTwo(n) == \E k \in 0 .. n : n = 2 ^ k
KeysMismatch == ip_srs.vlen # Len(proofs) \/ ip_srs.wlen # Len(proofs)
\* A batch of n = 2^k proofs, k >= 1, with an SRS of matching size.
WellFormedBatch == Len(proofs) >= 2 /\ PowerOfTwo(Len(proofs)) /\ ~KeysMismatch
\* Every proof of the batch is a valid Groth16 proof of some statement.
HonestBatch ==
    \A i \in 1 .. Len(proofs) : \E pub \in PubPool : groth16_holds(Pvk, proofs[i], pub)
InNonceLoop == pc \in {"derive_r", "gipa_challenge", "tipp_kzg"}
Returned == pc = "done"

\* C1: for every honest batch of n = 2^k proofs (k >= 1) with an SRS of matching
\* size, aggregate_proofs returns Ok(proof) (the proof that verify_aggregate_proof
\* is then to accept).
C1_HonestBatchAggregates ==
    (WellFormedBatch /\ HonestBatch) => <>(Returned /\ agg_result = "Ok")

\* C2: on a well-formed batch every Fiat-Shamir nonce loop that is entered is
\* left again, with a challenge value (not by a panic).
C2_NonceLoopsExit ==
    WellFormedBatch => [](InNonceLoop => <>(~InNonceLoop /\ pc # "aborted"))

\* C6: whenever the v key or the w key has a length other than the number of
\* proofs, aggregate_proofs returns Err(MalformedSrs) as its first step and no
\* commitment is ever computed.
C6_MalformedSrs ==
    KeysMismatch =>
        /\ agg.com_ab = <<>> /\ agg.com_c = <<>>
        /\ pc \in {"start", "done"}
        /\ pc = "done" => agg_result = "Err(MalformedSrs)"

\* C6 witness: only the w key has the wrong length, and the call has returned
\* MalformedSrs.
C6_Witness ==
    /\ Len(proofs) = 2 /\ ip_srs.vlen = 2 /\ ip_srs.wlen = 3
    /\ pc = "done" /\ agg_result = "Err(MalformedSrs)"

\* C7: for a batch whose size is not a power of two, with keys of the batch's
\* length, aggregate_proofs never panics, never starts a GIPA recursion, and
\* what it returns is Err(MalformedProofs).
C7_MalformedProofs ==
    (~PowerOfTwo(Len(proofs)) /\ ~KeysMismatch) =>
        /\ pc \notin {"aborted", "gipa_loop", "gipa_join", "gipa_challenge", "tipp_kzg",
                      "gipa_mipp"}
        /\ agg_result # "Ok"
        /\ pc = "done" => agg_result = "Err(MalformedProofs)"

\* C7 witness: a batch of three proofs has been refused with MalformedProofs,
\* both prove_tipp and prove_mipp having returned that error.
C7_Witness ==
    /\ Len(proofs) = 3 /\ ~KeysMismatch
    /\ pc = "done" /\ agg_result = "Err(MalformedProofs)"
    /\ agg.tipa_proof_ab = "Err(MalformedProofs)" /\ agg.tipa_proof_c = "Err(MalformedProofs)"

\* C8: a batch of exactly one proof (with keys of length one) is rejected:
\* aggregate_proofs does not panic, and what it returns is an Err value.
C8_SingleProofRejected ==
    (Len(proofs) = 1 /\ ~KeysMismatch) =>
        /\ pc # "aborted"
        /\ pc = "done" => agg_result \in {"Err(MalformedSrs)", "Err(MalformedProofs)"}

\* The state gipa_tipp is in after the rounds it has recorded, computed
\* sequentially from the call's inputs alone.
ExpectedKeys == get_commitment_keys(ip_srs)
ExpectedRVec == structured_scalar_power(Len(proofs), 1)
ExpectedStart ==
    tipp_start([i \in 1 .. Len(proofs) |-> FrMul(proofs[i].a, ExpectedRVec[i])],
               B(proofs),
               scale(ExpectedKeys[1], [i \in 1 .. Len(proofs) |-> FrInverse(ExpectedRVec[i])]),
               ExpectedKeys[2])
ExpectedGipa == gipa_tipp_rounds(ExpectedStart, Len(gipa.comms))

\* Whatever order the parallel closures run in, every value the call has
\* computed (com_ab, com_c, the rescaled inputs, each round's cross commitments
\* and products, challenges, folded vectors and keys, the final leaves, ip_ab,
\* agg_c) is the value fixed by the SRS and the ordered list of proofs alone.
ComputedValuesAreFixed ==
    /\ pc \in {"derive_r", "rescale", "prove_tipp", "gipa_loop", "gipa_join",
               "gipa_challenge", "tipp_kzg", "prove_mipp", "finish", "done"}
         /\ ~KeysMismatch =>
            /\ agg.com_ab = commit_pair(ExpectedKeys[1], ExpectedKeys[2], A(proofs), B(proofs))
            /\ agg.com_c = commit_single_g1(ExpectedKeys[1], C(proofs))
    /\ pc \in {"gipa_loop", "gipa_join", "gipa_challenge"} => gipa = ExpectedGipa
    /\ pc = "gipa_challenge" =>
         join_results(join) = [c_l |-> tipp_c_l(ExpectedGipa), c_r |-> tipp_c_r(ExpectedGipa),
                               z_l |-> tipp_z_l(ExpectedGipa), z_r |-> tipp_z_r(ExpectedGipa)]
    /\ pc = "tipp_kzg" =>
         /\ gipa = [gipa_tipp(ExpectedStart) EXCEPT !.challenges = Reverse(@),
                                                    !.challenges_inv = Reverse(@)]
         /\ Len(gipa.m_a) = 1
    /\ pc = "done" =>
         /\ agg_result = IF KeysMismatch THEN "Err(MalformedSrs)" ELSE "Err(MalformedProofs)"
         /\ ~KeysMismatch =>
              /\ agg.ip_ab = inner_product_pairing(ExpectedStart.m_a, B(proofs))
              /\ agg.agg_c = multiexponentiation(C(proofs), ExpectedRVec)

\* C9: aggregate_proofs is deterministic: a run on an SRS and an ordered list
\* of proofs produces the AggregateProof fixed by these inputs alone (com_ab,
\* com_c, ip_ab, agg_c, every GIPA round entry, the final leaves and the KZG
\* openings), however the parallel sub-computations are scheduled: every value
\* computed on the way is the fixed one, and on a well-formed batch the run
\* ends with Ok and the fixed values.
C9_RunsProduceTheSameProof ==
    /\ []ComputedValuesAreFixed
    /\ WellFormedBatch =>
           <>(/\ Returned /\ agg_result = "Ok"
              /\ agg.com_ab = commit_pair(ExpectedKeys[1], ExpectedKeys[2], A(proofs), B(proofs))
              /\ agg.com_c = commit_single_g1(ExpectedKeys[1], C(proofs))
              /\ agg.ip_ab = inner_product_pairing(ExpectedStart.m_a, B(proofs))
              /\ agg.agg_c = multiexponentiation(C(proofs), ExpectedRVec)
              /\ gipa = [gipa_tipp(ExpectedStart) EXCEPT !.challenges = Reverse(@),
                                                         !.challenges_inv = Reverse(@)])

\* ------------------------------------------------------------------------
\* Properties of the polynomial utilities (SpecPoly)
\* ------------------------------------------------------------------------

PolyBothDone == poly_coeffs # <<>> /\ poly_eval # None

\* The round trip on the transcripts the callers pass: for every non-empty
\* transcript t the coefficient list evaluated at z equals the product-form
\* evaluation; the list has length 2^|t| for every t; on the empty transcript
\* the product-form evaluation panics on transcript[0].
RoundTripOnNonEmptyTranscripts ==
    PolyBothDone =>
        /\ Len(poly_coeffs) = 2 ^ Len(poly_in.transcript)
        /\ Len(poly_in.transcript) >= 1 =>
              /\ poly_eval \in Fr
              /\ evaluate(poly_coeffs, poly_in.z) = poly_eval
              /\ poly_eval = product_form(poly_in.transcript, 1, poly_in.z, poly_in.r_shift)
        /\ Len(poly_in.transcript) = 0 => poly_eval = Panic

\* C10: for every transcript t (the empty one included), shift r and point z,
\* the coefficient list polynomial_coefficients_from_transcript(t, r) evaluated
\* at z equals polynomial_evaluation_product_form_from_transcript(t, z, r), which
\* is prod_i (1 + t[i] * (r*z)^(2^i)), and the list has length 2^|t|.
C10_CoefficientsMatchProductForm ==
    PolyBothDone =>
        /\ Len(poly_coeffs) = 2 ^ Len(poly_in.transcript)
        /\ evaluate(poly_coeffs, poly_in.z) = poly_eval
        /\ poly_eval = product_form(poly_in.transcript, 1, poly_in.z, poly_in.r_shift)

\* ------------------------------------------------------------------------
\* Specification SpecVer: one call of verify_aggregate_proof
\* ------------------------------------------------------------------------

\* Longest list of statements given to verify_aggregate_proof.
MaxInputs == 2

\* Statements of the lengths below, at and above the one the key expects.
VerInputPool == {<<>>, <<1>>, <<2>>, <<1, 2>>}

\* Batches whose aggregate proofs are given to the verifier, with their statements.
VerBatches ==
    { [proofs |-> << honest_proof(1, 2, <<1>>), honest_proof(3, 5, <<2>>) >>,
       statements |-> << <<1>>, <<2>> >>],
      [proofs |-> << honest_proof(1, 2, <<1>>), honest_proof(3, 5, <<2>>),
                     honest_proof(3, 5, <<2>>), honest_proof(1, 2, <<1>>) >>,
       statements |-> << <<1>>, <<2>>, <<2>>, <<1>> >>] }

\* The proofs given to the verifier: the assembled proof of a batch and the
\* proofs that differ from it in both openings of the TIPP proof, in the
\* opening of v and the final scalar of the MIPP proof, in one other element,
\* or in having no rounds.
ProofCases(base) ==
    { [base EXCEPT !.proof_ab.vkey_opening = o, !.proof_ab.wkey_opening = p] :
        o \in Fr \X Fr, p \in Fr \X Fr }
    \cup { [base EXCEPT !.proof_ab.vkey_opening = o, !.proof_c.gipa.final_r = x] :
             o \in Fr \X Fr, x \in Fr }
    \cup { [base EXCEPT !.proof_c.vkey_opening = o] : o \in Fr \X Fr }
    \cup { [base EXCEPT !.proof_c.gipa.final_c = x] : x \in Fr }
    \cup { [base EXCEPT !.proof_ab.gipa.final_a = x] : x \in Fr }
    \cup { [base EXCEPT !.agg_c = x] : x \in Fr }
    \cup { [base EXCEPT !.proof_ab.gipa.comms = <<>>],
           [base EXCEPT !.proof_c.gipa.z_vec = <<>>] }

\* A call's arguments: a proof out of ProofCases with the batch's statements,
\* or the assembled proof with any short list of statements.
VerInit ==
    /\ \E batch \in VerBatches, secrets \in SrsSecrets :
         LET n == Len(batch.proofs)
             srs == [alpha |-> secrets[1], beta |-> secrets[2], n |-> n,
                     vlen |-> n, wlen |-> n]
             base == assemble_aggregate_proof(srs, batch.proofs, 1)
         IN  /\ v_srs = to_verifier_srs(srs)
             /\ \/ /\ proof \in ProofCases(base)
                   /\ public_inputs = batch.statements
                \/ /\ proof = base
                   /\ public_inputs \in SeqsUpTo(VerInputPool, MaxInputs)
    /\ vpc = "derive_r"
    /\ v_r = None
    /\ task = [tipp |-> TaskIdle, mipp |-> TaskIdle]
    /\ chan = [items |-> <<>>, receiver |-> FALSE]
    /\ v_result = "none"
    /\ PolyIdle
    /\ AggOff
    /\ ExtIdle

\* Lines 42-60: the loop deriving r (it breaks on its first iteration).
VerDeriveR ==
    /\ vpc = "derive_r"
    /\ v_r' = verify_derive_r(0, proof.com_ab, proof.com_c)
    /\ vpc' = "check_inputs"
    /\ UNCHANGED <<v_srs, public_inputs, proof, task, chan, v_result, polyVars, aggVars, extVars>>

\* Lines 62-71: the check of the statements' lengths; then the channels are made.
VerCheckInputs ==
    /\ vpc = "check_inputs"
    /\ IF public_inputs_malformed(public_inputs, Pvk)
       THEN /\ v_result' = "Err(MalformedVerifyingKey)"
            /\ vpc' = "done"
            /\ UNCHANGED chan
       ELSE /\ chan' = [items |-> <<>>, receiver |-> TRUE]
            /\ vpc' = "spawn_tipp"
            /\ UNCHANGED v_result
    /\ UNCHANGED <<v_srs, public_inputs, proof, v_r, task, polyVars, aggVars, extVars>>

\* Lines 74-86: the task verifying the TIPP proof is spawned.
VerSpawnTipp ==
    /\ vpc = "spawn_tipp"
    /\ task' = [task EXCEPT !.tipp.st = "spawned"]
    /\ vpc' = "spawn_mipp"
    /\ UNCHANGED <<v_srs, public_inputs, proof, v_r, chan, v_result, polyVars, aggVars, extVars>>

\* Lines 89-102: the task verifying the MIPP proof is spawned.
VerSpawnMipp ==
    /\ vpc = "spawn_mipp"
    /\ task' = [task EXCEPT !.mipp.st = "spawned"]
    /\ vpc' = "r_sum"
    /\ UNCHANGED <<v_srs, public_inputs, proof, v_r, chan, v_result, polyVars, aggVars, extVars>>

\* Lines 106-109: r_sum.  When (r - 1).inverse().unwrap() panics the body of
\* the scope unwinds, which drops rcv_tuple.
VerRSum ==
    /\ vpc = "r_sum"
    /\ IF verify_r_sum(v_r, Len(public_inputs)) = None
       THEN /\ vpc' = "unwinding"
            /\ chan' = [chan EXCEPT !.receiver = FALSE]
       ELSE /\ vpc' = "spawn_p1"
            /\ UNCHANGED chan
    /\ UNCHANGED <<v_srs, public_inputs, proof, v_r, task, v_result, polyVars, aggVars, extVars>>

\* Lines 77-83: the spawned task runs verify_tipp.
TippTaskVerify ==
    /\ task.tipp.st = "spawned"
    /\ IF verify_tipp_panics(proof.proof_ab, v_r)
       THEN task' = [task EXCEPT !.tipp.st = "panicked"]
       ELSE task' = [task EXCEPT
                       !.tipp.st = "computed",
                       !.tipp.tuple = verify_tipp(v_srs, proof.com_ab, proof.ip_ab,
                                                  proof.proof_ab, v_r)]
    /\ UNCHANGED <<v_srs, public_inputs, proof, vpc, v_r, chan, v_result, polyVars, aggVars, extVars>>

\* Line 85: tipa_ab.send(tuple).unwrap(), which panics once the receiver is dropped.
TippTaskSend ==
    /\ task.tipp.st = "computed"
    /\ IF chan.receiver
       THEN /\ chan' = [chan EXCEPT !.items = Append(@, task.tipp.tuple)]
            /\ task' = [task EXCEPT !.tipp.st = "sent"]
       ELSE /\ task' = [task EXCEPT !.tipp.st = "panicked"]
            /\ UNCHANGED chan
    /\ UNCHANGED <<v_srs, public_inputs, proof, vpc, v_r, v_result, polyVars, aggVars, extVars>>

\* Lines 92-99: the spawned task runs verify_mipp.
MippTaskVerify ==
    /\ task.mipp.st = "spawned"
    /\ IF verify_mipp_panics(proof.proof_c)
       THEN task' = [task EXCEPT !.mipp.st = "panicked"]
       ELSE task' = [task EXCEPT
                       !.mipp.st = "computed",
                       !.mipp.tuple = verify_mipp(v_srs, proof.com_c, proof.agg_c,
                                                  proof.proof_c)]
    /\ UNCHANGED <<v_srs, public_inputs, proof, vpc, v_r, chan, v_result, polyVars, aggVars, extVars>>

\* Line 101: tipa_c.send(tuple).unwrap().
MippTaskSend ==
    /\ task.mipp.st = "computed"
    /\ IF chan.receiver
       THEN /\ chan' = [chan EXCEPT !.items = Append(@, task.mipp.tuple)]
            /\ task' = [task EXCEPT !.mipp.st = "sent"]
       ELSE /\ task' = [task EXCEPT !.mipp.st = "panicked"]
            /\ UNCHANGED chan
    /\ UNCHANGED <<v_srs, public_inputs, proof, vpc, v_r, v_result, polyVars, aggVars, extVars>>

\* rayon::scope waits for the spawned tasks, then resumes the panic of its body.
VerScopeEnd ==
    /\ vpc = "unwinding"
    /\ \A t \in {"tipp", "mipp"} : task[t].st \in {"sent", "panicked"}
    /\ v_result' = "panic(unwrap on None)"
    /\ vpc' = "aborted"
    /\ UNCHANGED <<v_srs, public_inputs, proof, v_r, task, chan, polyVars, aggVars, extVars>>

VerNext ==
    \/ VerDeriveR
    \/ VerCheckInputs
    \/ VerSpawnTipp
    \/ VerSpawnMipp
    \/ VerRSum
    \/ TippTaskVerify
    \/ TippTaskSend
    \/ MippTaskVerify
    \/ MippTaskSend
    \/ VerScopeEnd

SpecVer == VerInit /\ [][VerNext]_vars

\* ------------------------------------------------------------------------
\* Properties of verify_aggregate_proof (SpecVer)
\* ------------------------------------------------------------------------

\* Some statement has not one scalar less than the key's ic has elements.
BadStatement ==
    \E i \in 1 .. Len(public_inputs) : Len(public_inputs[i]) # Len(Pvk.ic) - 1

\* The equations fused into the tuple of verify_tipp, each as a tuple of its
\* own: the alpha and beta openings of v, those of w, the inner-product check.
TippEquations ==
    LET pr == proof.proof_ab
        g == gipa_verify_tipp(proof.com_ab, proof.ip_ab, pr.gipa)
        fv == pr.gipa.final_vkey
        fw == pr.gipa.final_wkey
        ch == Reverse(g.challenges)
        ch_inv == Reverse(g.challenges_inv)
        r_inv == FrInverse(v_r)
    IN  << from_miller(kzg_opening_g2_alpha(v_srs, fv, pr.vkey_opening, ch_inv, r_inv, 1)),
           from_miller(kzg_opening_g2_beta(v_srs, fv, pr.vkey_opening, ch_inv, r_inv, 1)),
           from_miller(kzg_opening_g1_alpha(v_srs, fw, pr.wkey_opening, ch, 1, 1)),
           from_miller(kzg_opening_g1_beta(v_srs, fw, pr.wkey_opening, ch, 1, 1)),
           verify_tipp_check(v_srs, proof.com_ab, proof.ip_ab, pr, v_r) >>

\* The equations fused into the tuple of verify_mipp once its scalar check
\* has passed: the alpha and beta openings of v and the check of T and U.
MippEquations ==
    LET pr == proof.proof_c
        g == gipa_verify_mipp(proof.com_c, proof.agg_c, pr.gipa)
        fv == pr.gipa.final_vkey
        ch_inv == Reverse(g.challenges_inv)
    IN  << from_miller(kzg_opening_g2_alpha(v_srs, fv, pr.vkey_opening, ch_inv, 1, 1)),
           from_miller(kzg_opening_g2_beta(v_srs, fv, pr.vkey_opening, ch_inv, 1, 1)),
           verify_mipp_pair(v_srs, proof.com_c, proof.agg_c, pr) >>

AllHold(equations) == \A i \in 1 .. Len(equations) : verify(equations[i])

\* C3: a tuple into which several pairing equations were merged (the three
\* tuples merged by verify_tipp, the two merged by verify_mipp, the alpha and
\* beta equations fused by the KZG checks) verifies if and only if every one of
\* the merged equations holds on its own.
C3_MergedTupleVerifiesIffEveryEquationHolds ==
    /\ task.tipp.tuple # NoTuple =>
          (verify(task.tipp.tuple) <=> AllHold(TippEquations))
    /\ task.mipp.tuple \notin {NoTuple, new_invalid} =>
          (verify(task.mipp.tuple) <=> AllHold(MippEquations))

\* The scalar check of verify_mipp is reached and fails, on well-formed statements.
MippScalarCheckFails ==
    /\ ~BadStatement
    /\ ~verify_mipp_panics(proof.proof_c)
    /\ ~mipp_scalar_check(proof.agg_c, proof.proof_c)

\* C4: when final_c^final_r differs from the rescaled Z, verify_mipp returns
\* the invalid tuple and verify_aggregate_proof ends by returning Ok(false).
C4_ScalarCheckFailureReturnsFalse ==
    MippScalarCheckFails =>
        /\ task.mipp.tuple # NoTuple => task.mipp.tuple = new_invalid
        /\ vpc \in {"done", "aborted"} => v_result = "Ok(false)"

\* C5: when some statement's length plus one is not the length of ic, no task
\* is ever spawned, no channel is made and nothing is sent, and the call
\* returns Err(MalformedVerifyingKey).
C5_MalformedStatementsRejectedBeforeAnyTask ==
    BadStatement =>
        /\ task.tipp.st = "none" /\ task.mipp.st = "none"
        /\ chan.items = <<>> /\ ~chan.receiver
        /\ vpc \in {"derive_r", "check_inputs", "done"}
        /\ vpc = "done" => v_result = "Err(MalformedVerifyingKey)"

\* C5 witness: the call has returned the error on two statements of which
\* only the second has a wrong length.
C5_Witness ==
    /\ Len(public_inputs) = 2
    /\ Len(public_inputs[1]) + 1 = Len(Pvk.ic)
    /\ Len(public_inputs[2]) + 1 # Len(Pvk.ic)
    /\ vpc = "done"
    /\ v_result = "Err(MalformedVerifyingKey)"

\* ------------------------------------------------------------------------
\* Specification SpecRescale: the rescaling of aggregate_proofs on arbitrary r
\* ------------------------------------------------------------------------

\* A vector of scalars left as it is.
keep_r_vec(r_vec) == r_vec

\* aggregate_proofs, lines 73-77: the element-wise inverses of r_vec (None where
\* an element has none).
invert_r_vec(r_vec) == [i \in 1 .. Len(r_vec) |-> FrInverse(r_vec[i])]

\* aggregate_proofs, lines 79-84: A^r, every A[i] raised to r_vec[i].
rescale_a(a, r_vec) == [i \in 1 .. Min(Len(a), Len(r_vec)) |-> FrMul(a[i], r_vec[i])]

\* The commitment keys of a well-formed SRS for a batch of n proofs.
rescale_keys(in) ==
    get_commitment_keys([alpha |-> in.alpha, beta |-> in.beta, n |-> Len(in.proofs),
                         vlen |-> Len(in.proofs), wlen |-> Len(in.proofs)])

RescaleInit ==
    /\ \E secrets \in SrsSecrets :
         rescale_in \in [proofs : SeqsUpTo(ProofPool, MaxProofs), alpha : {secrets[1]},
                         beta : {secrets[2]}, r : Fr]
    /\ rescale_out = RescaleNone
    /\ PolyIdle
    /\ AggOff
    /\ VerOff
    /\ BatchOff
    /\ ExtendOff
    /\ AssignOff

\* aggregate_proofs, lines 42-45: com_ab = commit_pair(v, w, A, B).
RescaleCommit ==
    /\ rescale_out.st = "none"
    /\ LET keys == rescale_keys(rescale_in)
       IN  rescale_out' = [rescale_out EXCEPT
                             !.st = "committed",
                             !.com_ab = commit_pair(keys[1], keys[2], A(rescale_in.proofs),
                                                    B(rescale_in.proofs))]
    /\ UNCHANGED <<rescale_in, assignVars, polyVars, aggVars, verVars, batchVars, extendVars>>

\* aggregate_proofs, lines 71-86: r_vec, its inverses (unwrap panics on None),
\* A^r and v^(r^-1).
RescaleScale ==
    /\ rescale_out.st = "committed"
    /\ LET keys == rescale_keys(rescale_in)
           r_vec == structured_scalar_power(Len(rescale_in.proofs), rescale_in.r)
           r_inv == invert_r_vec(r_vec)
       IN  IF \E i \in 1 .. Len(r_inv) : r_inv[i] = None
           THEN rescale_out' = [rescale_out EXCEPT !.st = "panic(unwrap on None)"]
           ELSE rescale_out' = [rescale_out EXCEPT
                                  !.st = "rescaled",
                                  !.a_r = rescale_a(A(rescale_in.proofs), r_vec),
                                  !.vkey_r_inv = scale(keys[1], r_inv)]
    /\ UNCHANGED <<rescale_in, assignVars, polyVars, aggVars, verVars, batchVars, extendVars>>

\* aggregate_proofs, line 88, prove_tipp up to its KZG loop (lines 129-143):
\* a length that is no power of two returns Err(MalformedProofs); otherwise
\* gipa_tipp runs, r_shift is inverted (unwrap panics on None) and the loop for
\* the KZG challenge point is entered.
RescaleProveTipp ==
    /\ rescale_out.st = "rescaled"
    /\ rescale_out' = [rescale_out EXCEPT
                         !.st = IF tipp_malformed(rescale_out.a_r, B(rescale_in.proofs))
                                THEN "tipp_returned"
                                ELSE IF FrInverse(rescale_in.r) = None
                                THEN "panic(unwrap on None)"
                                ELSE "tipp_kzg",
                         !.counter_nonce = 0]
    /\ UNCHANGED <<rescale_in, assignVars, polyVars, aggVars, verVars, batchVars, extendVars>>

\* prove_tipp, lines 144-160: one iteration of the loop for the KZG challenge
\* point.  challenges.first().unwrap() panics when gipa_tipp made no round (one
\* proof); the break is commented out, so the nonce is incremented and the
\* loop goes on; past the largest usize the increment panics in a build with
\* overflow checks and wraps to zero in one without.
RescaleTippKzgChallenge ==
    /\ rescale_out.st = "tipp_kzg"
    /\ \/ /\ Len(rescale_out.a_r) <= 1
          /\ rescale_out' = [rescale_out EXCEPT !.st = "panic(unwrap on None)"]
       \/ /\ Len(rescale_out.a_r) > 1
          /\ rescale_out.counter_nonce < NonceMax
          /\ rescale_out' = [rescale_out EXCEPT !.counter_nonce = @ + 1]
       \/ /\ Len(rescale_out.a_r) > 1
          /\ rescale_out.counter_nonce = NonceMax
          /\ \/ rescale_out' = [rescale_out EXCEPT !.st = "panic(add with overflow)"]
             \/ rescale_out' = [rescale_out EXCEPT !.counter_nonce = 0]
    /\ UNCHANGED <<rescale_in, assignVars, polyVars, aggVars, verVars, batchVars, extendVars>>

\* aggregate_proofs, lines 89-94, prove_mipp (lines 581-583): reached when
\* prove_tipp has returned, that is on a length that is no power of two, on
\* which prove_mipp returns Err(MalformedProofs) as well; otherwise it enters
\* its own loop for the KZG challenge point, which has no break either.
RescaleProveMipp ==
    /\ rescale_out.st = "tipp_returned"
    /\ LET r_vec == structured_scalar_power(Len(rescale_in.proofs), rescale_in.r)
       IN  rescale_out' = [rescale_out EXCEPT
                             !.st = IF mipp_malformed(C(rescale_in.proofs), r_vec)
                                    THEN "mipp_returned" ELSE "mipp_kzg"]
    /\ UNCHANGED <<rescale_in, assignVars, polyVars, aggVars, verVars, batchVars, extendVars>>

\* aggregate_proofs, lines 99-100: the commitment to the rescaled vectors and
\* the assertion comparing it to com_ab.
RescaleAssert ==
    /\ rescale_out.st = "mipp_returned"
    /\ LET keys == rescale_keys(rescale_in)
           computed_com_ab == commit_pair(rescale_out.vkey_r_inv, keys[2], rescale_out.a_r,
                                          B(rescale_in.proofs))
       IN  rescale_out' = [rescale_out EXCEPT
                             !.st = IF rescale_out.com_ab = computed_com_ab
                                    THEN "asserted" ELSE "panic(assert_eq)",
                             !.computed_com_ab = computed_com_ab]
    /\ UNCHANGED <<rescale_in, assignVars, polyVars, aggVars, verVars, batchVars, extendVars>>

RescaleNext ==
    \/ RescaleCommit
    \/ RescaleScale
    \/ RescaleProveTipp
    \/ RescaleTippKzgChallenge
    \/ RescaleProveMipp
    \/ RescaleAssert

SpecRescale == RescaleInit /\ [][RescaleNext]_vars

\* The rescaling of lines 71-86 has been done.
Rescaled ==
    rescale_out.st \in {"rescaled", "tipp_kzg", "tipp_returned", "mipp_returned", "asserted",
                        "panic(assert_eq)", "panic(add with overflow)"}
        \/ (rescale_out.st = "panic(unwrap on None)" /\ Len(rescale_in.proofs) = 1)

\* C11: for every batch and every non-zero r, the commitment to the rescaled
\* vectors (v scaled by the inverses of r_vec, A raised to r_vec) equals com_ab,
\* so the assertion of aggregate_proofs does not fail.
C11_RescaledCommitmentEqualsComAb ==
    (rescale_in.r # 0 /\ Rescaled)
        => /\ commit_pair(rescale_out.vkey_r_inv, rescale_keys(rescale_in)[2],
                          rescale_out.a_r, B(rescale_in.proofs)) = rescale_out.com_ab
           /\ rescale_out.st # "panic(assert_eq)"
           /\ rescale_out.st = "asserted" =>
                  rescale_out.computed_com_ab = rescale_out.com_ab

\* The assertion has passed on a batch of several proofs rescaled by an r that
\* is neither 0 nor 1.
C11_Witness ==
    /\ rescale_in.r \notin {0, 1}
    /\ Len(rescale_in.proofs) >= 2
    /\ rescale_out.st = "asserted"
    /\ rescale_out.computed_com_ab = rescale_out.com_ab

\* ------------------------------------------------------------------------
\* The batching scalar r
\* ------------------------------------------------------------------------

\* The hashed derivation of r: the hash of (counter_nonce, com_ab, com_c) taken
\* into the field, the nonce incremented until the value is non-zero (None when
\* the nonce counter runs out first).
RECURSIVE hashed_r_from(_, _, _)
hashed_r_from(nonce, com_ab, com_c) ==
    LET hash_input == <<nonce, com_ab[1], com_ab[2], com_c[1], com_c[2]>>
        r == fr_from_u128(Sha256_digest(hash_input))
    IN  IF r # 0 THEN r
        ELSE IF nonce = NonceMax THEN None
        ELSE hashed_r_from(nonce + 1, com_ab, com_c)

\* C12: the r aggregate_proofs uses is the Fiat-Shamir hash of
\* (nonce, com_ab, com_c), the nonce incremented until the value is non-zero.
C12_RIsHashOfCommitments ==
    agg.r # None => agg.r = hashed_r_from(0, agg.com_ab, agg.com_c)

\* ------------------------------------------------------------------------
\* The KZG challenge point
\* ------------------------------------------------------------------------

\* C13: the KZG challenge point prove_tipp derives from the last GIPA challenge
\* and the final keys is the one verify_tipp derives from the same values: once
\* the prover is in its derivation it obtains that point.
C13_ProverKzgChallengeIsVerifiers ==
    WellFormedBatch =>
        [](pc = "tipp_kzg" =>
              <>(/\ agg.z # None
                 /\ agg.z = verify_kzg_challenge(0, gipa.challenges[1],
                                                 <<first(gipa.vkey), first(gipa.wkey)>>)))

\* ------------------------------------------------------------------------
\* The tuples of the final pairing equation and the accumulator task
\* ------------------------------------------------------------------------

\* verify_aggregate_proof, lines 112-119: the tuple of e(alpha^r_sum, beta).
p1_tuple(pvk, r_sum) == from_miller(miller_loop(FrMul(pvk.alpha_g1, r_sum), pvk.beta_g2))

\* verify_aggregate_proof, lines 122-131: the tuple of e(agg_c, delta).
p3_tuple(pvk, pr) == from_miller(miller_loop(pr.agg_c, pvk.delta_g2))

\* verify_aggregate_proof, lines 164-172: the exponent of the i-th element of ic,
\* the i-th public input of every statement weighted by the powers of r.
RECURSIVE getter_from(_, _, _, _)
getter_from(inputs, powers, i, j) ==
    IF j > Len(inputs) THEN 0
    ELSE FrAdd(FrMul(inputs[j][i], powers[j]), getter_from(inputs, powers, i, j + 1))
getter(inputs, powers, i) == FrAdd(inputs[1][i], getter_from(inputs, powers, i, 2))

\* verify_aggregate_proof, lines 174-178: the multiscalar multiplication of
\* ic[1..] by the exponents.
RECURSIVE totsi_from(_, _, _, _)
totsi_from(pvk, inputs, powers, i) ==
    IF i > Len(inputs[1]) THEN 0
    ELSE FrAdd(FrMul(getter(inputs, powers, i), pvk.ic[i + 1]),
               totsi_from(pvk, inputs, powers, i + 1))

\* verify_aggregate_proof, lines 146-190: the tuple of e(ic[0]^r_sum * totsi, gamma).
public_input_tuple(pvk, inputs, r, r_sum) ==
    LET powers == structured_scalar_power(Len(inputs), r)
        g_ic == FrAdd(FrMul(pvk.ic[1], r_sum), totsi_from(pvk, inputs, powers, 1))
    IN  from_miller(miller_loop(g_ic, pvk.gamma_g2))

\* verify_aggregate_proof, lines 192-200: the accumulator task merges the
\* tuples in the order it receives them, starting from (one, ip_ab).
RECURSIVE accumulate(_, _, _)
accumulate(acc, received, k) ==
    IF k > Len(received) THEN acc
    ELSE accumulate(merge(acc, received[k]), received, k + 1)

\* The five tuples sent to the accumulator, in the order of their tasks in the code.
five_tuples(vsrs, pvk, inputs, pr, r) ==
    LET r_sum == verify_r_sum(r, Len(inputs))
    IN  << verify_tipp(vsrs, pr.com_ab, pr.ip_ab, pr.proof_ab, r),
           verify_mipp(vsrs, pr.com_c, pr.agg_c, pr.proof_c),
           p1_tuple(pvk, r_sum), p3_tuple(pvk, pr), public_input_tuple(pvk, inputs, r, r_sum) >>

\* The orders in which five tuples can arrive.
Arrivals == {f \in [1 .. 5 -> 1 .. 5] : \A i, j \in 1 .. 5 : f[i] = f[j] => i = j}

\* C14: the call returns a boolean, and it is the verdict on the tuples merged
\* in any order of arrival at the accumulator task.
C14_VerdictIndependentOfArrivalOrder ==
    (vpc \in {"done", "aborted"} /\ ~BadStatement /\ Len(public_inputs) > 0)
        => \E b \in BOOLEAN :
              /\ v_result = (IF b THEN "Ok(true)" ELSE "Ok(false)")
              /\ \A f \in Arrivals :
                    LET sent == five_tuples(v_srs, Pvk, public_inputs, proof, v_r)
                    IN  verify(accumulate(from_pair(FqkOne, proof.ip_ab),
                                          [k \in 1 .. 5 |-> sent[f[k]]], 1)) = b

\* ------------------------------------------------------------------------
\* Tamper evidence
\* ------------------------------------------------------------------------

\* The well-formed proof of a batch, with the openings at the verifier's KZG
\* challenge point (one).
AssembledProof(batch) ==
    LET n == Len(batch.proofs)
    IN  assemble_aggregate_proof([alpha |-> 3, beta |-> 5, n |-> n, vlen |-> n, wlen |-> n],
                                 batch.proofs, 1)

\* The call is given the statements of a batch and the batch's assembled proof
\* with one field replaced: agg_c, or a final leaf of the TIPP or MIPP proof.
SingleFieldReplaced ==
    \E batch \in VerBatches :
        LET base == AssembledProof(batch)
        IN  /\ public_inputs = batch.statements
            /\ v_srs = to_verifier_srs([alpha |-> 3, beta |-> 5, n |-> Len(batch.proofs)])
            /\ proof # base
            /\ \/ proof = [base EXCEPT !.agg_c = proof.agg_c]
               \/ proof = [base EXCEPT !.proof_c.gipa.final_c = proof.proof_c.gipa.final_c]
               \/ proof = [base EXCEPT !.proof_ab.gipa.final_a = proof.proof_ab.gipa.final_a]

\* C15: on an aggregate proof with a single non-challenge field replaced,
\* verify_aggregate_proof returns Ok(false).
C15_TamperedProofReturnsFalse ==
    (vpc \in {"done", "aborted"} /\ SingleFieldReplaced) => v_result = "Ok(false)"

\* ------------------------------------------------------------------------
\* Specification SpecBatch: one call of create_proof_batch_priority (prover.rs)
\* ------------------------------------------------------------------------

\* Largest number of circuits, and of blinding scalars, given to the call.
MaxCircuits == 2

\* The circuits: whether synthesis succeeds, the number n of constraints it
\* leaves in a, the total densities of the three trackers of its assignment,
\* and the values the multi-exponentiations over the assignment give (a for
\* the A query, b for the B queries, hl for h plus l).
CircuitPool ==
    { [synthesis |-> "Ok", n |-> 1, a |-> 1, b |-> 2, hl |-> 3,
       a_aux_density_total |-> 0, b_input_density_total |-> 0, b_aux_density_total |-> 0],
      [synthesis |-> "Ok", n |-> 1, a |-> 4, b |-> 1, hl |-> 6,
       a_aux_density_total |-> 0, b_input_density_total |-> 0, b_aux_density_total |-> 0],
      [synthesis |-> "Ok", n |-> 2, a |-> 2, b |-> 2, hl |-> 5,
       a_aux_density_total |-> 1, b_input_density_total |-> 0, b_aux_density_total |-> 1],
      [synthesis |-> "Ok", n |-> 2, a |-> 4, b |-> 0, hl |-> 0,
       a_aux_density_total |-> 0, b_input_density_total |-> 0, b_aux_density_total |-> 0],
      [synthesis |-> "Err(AssignmentMissing)", n |-> 0, a |-> 0, b |-> 0, hl |-> 0,
       a_aux_density_total |-> 0, b_input_density_total |-> 0, b_aux_density_total |-> 0] }

\* Lines 275-289: the total densities of prover i differ from those of the first.
densities_differ(ps, i) ==
    \/ ps[i].a_aux_density_total # ps[1].a_aux_density_total
    \/ ps[i].b_input_density_total # ps[1].b_input_density_total
    \/ ps[i].b_aux_density_total # ps[1].b_aux_density_total

\* Lines 268-290: the loop over the provers, in list order: for each prover the
\* assert_eq on its number of constraints, then, in a build with debug
\* assertions, the debug_assert_eq on its densities.  The outcome is the panic
\* of the first prover that fails a check, or "none".
setup_checks(ps, debug_assertions) ==
    LET failing == {i \in 1 .. Len(ps) :
                      ps[i].n # ps[1].n \/ (debug_assertions /\ densities_differ(ps, i))}
    IN  IF failing = {} THEN "none"
        ELSE LET i == CHOOSE j \in failing : \A k \in failing : j <= k
             IN  IF ps[i].n # ps[1].n
                 THEN "panic(only equaly sized circuits are supported)"
                 ELSE "panic(only identical circuits are supported)"

\* The verifying keys: delta_g1 and delta_g2 are each the identity or not.
VkPool ==
    [alpha_g1 : {2}, beta_g1 : {3}, beta_g2 : {3}, delta_g1 : {0, 5}, delta_g2 : {0, 5}]

BatchInit ==
    /\ batch_in \in [circuits : SeqsUpTo(CircuitPool, MaxCircuits), vk : VkPool,
                     r_s : SeqsUpTo({1, 2}, MaxCircuits),
                     s_s : SeqsUpTo({1, 3}, MaxCircuits)]
    /\ bpc = "synthesis"
    /\ provers = <<>>
    /\ batch_proofs = <<>>
    /\ batch_result = "none"
    /\ PolyIdle
    /\ AggOff
    /\ VerOff
    /\ RescaleIdle
    /\ ExtendOff
    /\ AssignOff

\* create_proof_batch_priority_inner, lines 566-613, called at line 249: every
\* circuit is synthesized; the error of a failing synthesis is returned by "?".
BatchSynthesize ==
    /\ bpc = "synthesis"
    /\ LET cs == batch_in.circuits
       IN  IF \E i \in 1 .. Len(cs) : cs[i].synthesis # "Ok"
           THEN /\ \E i \in 1 .. Len(cs) :
                      /\ cs[i].synthesis # "Ok"
                      /\ batch_result' = cs[i].synthesis
                /\ bpc' = "done"
                /\ UNCHANGED provers
           ELSE /\ provers' = cs
                /\ bpc' = "setup"
                /\ UNCHANGED batch_result
    /\ UNCHANGED <<batch_in, batch_proofs, assignVars, polyVars, aggVars, verVars, rescaleVars, extendVars>>

\* Lines 257-290: provers[0] is read (a panic on an empty list), then the
\* loop of checks runs, in a build with debug assertions or in one without.
BatchSetup ==
    /\ bpc = "setup"
    /\ IF Len(provers) = 0
       THEN /\ batch_result' = "panic(index out of bounds)"
            /\ bpc' = "aborted"
       ELSE \E debug_assertions \in BOOLEAN :
              LET outcome == setup_checks(provers, debug_assertions)
              IN  IF outcome # "none"
                  THEN /\ batch_result' = outcome
                       /\ bpc' = "aborted"
                  ELSE /\ bpc' = "prove"
                       /\ UNCHANGED batch_result
    /\ UNCHANGED <<batch_in, provers, batch_proofs, assignVars, polyVars, aggVars, verVars, rescaleVars, extendVars>>

\* The number of iterations of the loop at lines 402-411: the zip of provers,
\* h_s, l_s, r_s and s_s stops at the shortest of them.
zipped_len(ps, r_s, s_s) == Min(Min(Len(ps), Len(r_s)), Len(s_s))

\* Lines 476-505: the proof of a circuit with the blinding scalars r and s.
create_proof(vk, prover, r, s) ==
    [a |-> FrAdd(FrAdd(FrMul(vk.delta_g1, r), vk.alpha_g1), prover.a),
     b |-> FrAdd(FrAdd(FrMul(vk.delta_g2, s), vk.beta_g2), prover.b),
     c |-> FrAdd(FrAdd(FrAdd(FrMul(vk.delta_g1, FrMul(r, s)), FrMul(vk.alpha_g1, s)),
                       FrAdd(FrMul(vk.beta_g1, r), FrMul(prover.a, s))),
                 FrAdd(FrMul(prover.b, r), prover.hl))]

\* Lines 469-473: delta_g1 or delta_g2 is the identity.
unexpected_identity(vk) == vk.delta_g1 = 0 \/ vk.delta_g2 = 0

\* Lines 402-511: one iteration of the final loop; the identity check returns
\* the error, otherwise the proof is pushed.
BatchProveOne ==
    /\ bpc = "prove"
    /\ Len(batch_proofs) < zipped_len(provers, batch_in.r_s, batch_in.s_s)
    /\ LET i == Len(batch_proofs) + 1
       IN  IF unexpected_identity(batch_in.vk)
           THEN /\ batch_result' = "Err(UnexpectedIdentity)"
                /\ batch_proofs' = <<>>
                /\ bpc' = "done"
           ELSE /\ batch_proofs' = Append(batch_proofs,
                                          create_proof(batch_in.vk, provers[i],
                                                       batch_in.r_s[i], batch_in.s_s[i]))
                /\ UNCHANGED <<bpc, batch_result>>
    /\ UNCHANGED <<batch_in, provers, assignVars, polyVars, aggVars, verVars, rescaleVars, extendVars>>

\* Lines 512-522: the loop is over and the proofs are returned.
BatchReturn ==
    /\ bpc = "prove"
    /\ Len(batch_proofs) = zipped_len(provers, batch_in.r_s, batch_in.s_s)
    /\ batch_result' = "Ok"
    /\ bpc' = "done"
    /\ UNCHANGED <<batch_in, provers, batch_proofs, assignVars, polyVars, aggVars, verVars, rescaleVars, extendVars>>

BatchNext == BatchSynthesize \/ BatchSetup \/ BatchProveOne \/ BatchReturn

SpecBatch == BatchInit /\ [][BatchNext]_vars

\* C16: for every non-empty list of circuits, whenever delta_g1 or delta_g2 of
\* the verifying key is the identity the call returns Err(UnexpectedIdentity)
\* and no proofs.
C16_IdentityDeltaIsRejected ==
    (/\ bpc \in {"done", "aborted"}
     /\ Len(batch_in.circuits) > 0
     /\ (batch_in.vk.delta_g1 = 0 \/ batch_in.vk.delta_g2 = 0))
        => (batch_result = "Err(UnexpectedIdentity)" /\ batch_proofs = <<>>)

\* ------------------------------------------------------------------------
\* Specification SpecExtend: ProvingAssignment built at once and in chunks
\* ------------------------------------------------------------------------

\* DensityTracker::add_element: one more bit, not set.
add_element(d) == [d EXCEPT !.bv = Append(@, FALSE)]

\* DensityTracker::extend(other, is_input_density): the bits of other are
\* appended; for an input density the first bit of other, that of its own
\* constant-one input, is merged into the first bit of self.
DensityTracker_extend(d, other, is_input_density) ==
    IF Len(other.bv) = 0 THEN d
    ELSE IF Len(d.bv) = 0 THEN other
    ELSE IF is_input_density
    THEN [bv |-> [d.bv EXCEPT ![1] = @ \/ other.bv[1]] \o Tail(other.bv),
          total_density |-> (IF other.bv[1] /\ d.bv[1] THEN d.total_density - 1
                             ELSE d.total_density) + other.total_density]
    ELSE [bv |-> d.bv \o other.bv, total_density |-> d.total_density + other.total_density]

\* ProvingAssignment::alloc, lines 108-119, with a value closure that succeeds.
alloc(pa, el) ==
    [pa EXCEPT !.aux_assignment = Append(@, el),
               !.a_aux_density = add_element(@),
               !.b_aux_density = add_element(@)]

\* ProvingAssignment::alloc_input, lines 121-131, with a value closure that succeeds.
alloc_input(pa, el) ==
    [pa EXCEPT !.input_assignment = Append(@, el),
               !.b_input_density = add_element(@)]

\* extend with the whole input_assignment of other appended.
extend_keeping_first_input(pa, other) ==
    [a_aux_density |-> DensityTracker_extend(pa.a_aux_density, other.a_aux_density, FALSE),
     b_input_density |-> DensityTracker_extend(pa.b_input_density, other.b_input_density, TRUE),
     b_aux_density |-> DensityTracker_extend(pa.b_aux_density, other.b_aux_density, FALSE),
     a |-> pa.a \o other.a, b |-> pa.b \o other.b, c |-> pa.c \o other.c,
     input_assignment |-> pa.input_assignment \o other.input_assignment,
     aux_assignment |-> pa.aux_assignment \o other.aux_assignment]

\* ProvingAssignment::extend, lines 201-214: other.input_assignment[1..] panics
\* on an empty input_assignment (Panic stands for it).
extend(pa, other) ==
    IF Len(other.input_assignment) = 0 THEN Panic
    ELSE [a_aux_density |->
              DensityTracker_extend(pa.a_aux_density, other.a_aux_density, FALSE),
          b_input_density |->
              DensityTracker_extend(pa.b_input_density, other.b_input_density, TRUE),
          b_aux_density |->
              DensityTracker_extend(pa.b_aux_density, other.b_aux_density, FALSE),
          a |-> pa.a \o other.a, b |-> pa.b \o other.b, c |-> pa.c \o other.c,
          input_assignment |-> pa.input_assignment \o Tail(other.input_assignment),
          aux_assignment |-> pa.aux_assignment \o other.aux_assignment]

\* Largest number of alloc / alloc_input operations, and of chunks.
MaxOps == 4
MaxChunks == 3

\* The values allocated.
ElPool == {2, 3}

\* The number of operations applied so far.
ops_done == (Len(full_assignment.input_assignment) - 1) + Len(full_assignment.aux_assignment)

\* test_proving_assignment_extend, lines 637-640: the full assignment starts
\* with the constant-one input.
ExtendInit ==
    /\ full_assignment = alloc_input(ProvingAssignment_new, 1)
    /\ partial_assignments = <<>>
    /\ combined = ProvingAssignment_new
    /\ next_chunk = 0
    /\ epc = "build"
    /\ PolyIdle
    /\ AggOff
    /\ VerOff
    /\ RescaleIdle
    /\ BatchOff
    /\ AssignOff

\* Lines 644-648: a chunk starts on a fresh assignment with the constant-one input.
ExtendStartChunk ==
    /\ epc = "build"
    /\ Len(partial_assignments) < MaxChunks
    /\ partial_assignments' = Append(partial_assignments,
                                     alloc_input(ProvingAssignment_new, 1))
    /\ UNCHANGED <<full_assignment, combined, next_chunk, epc, assignVars, polyVars, aggVars, verVars, rescaleVars,
                   batchVars>>

\* Lines 653-661: alloc on the full assignment and on the current chunk.
ExtendAlloc ==
    /\ epc = "build"
    /\ Len(partial_assignments) > 0
    /\ ops_done < MaxOps
    /\ \E el \in ElPool :
         /\ full_assignment' = alloc(full_assignment, el)
         /\ partial_assignments' =
                [partial_assignments EXCEPT ![Len(partial_assignments)] = alloc(@, el)]
    /\ UNCHANGED <<combined, next_chunk, epc, assignVars, polyVars, aggVars, verVars, rescaleVars,
                   batchVars>>

\* Lines 663-671: alloc_input on the full assignment and on the current chunk.
ExtendAllocInput ==
    /\ epc = "build"
    /\ Len(partial_assignments) > 0
    /\ ops_done < MaxOps
    /\ \E el \in ElPool :
         /\ full_assignment' = alloc_input(full_assignment, el)
         /\ partial_assignments' =
                [partial_assignments EXCEPT ![Len(partial_assignments)] = alloc_input(@, el)]
    /\ UNCHANGED <<combined, next_chunk, epc, assignVars, polyVars, aggVars, verVars, rescaleVars,
                   batchVars>>

\* Lines 676-677: the base of the combination, holding the constant-one input.
ExtendBase ==
    /\ epc = "build"
    /\ combined' = alloc_input(ProvingAssignment_new, 1)
    /\ epc' = "extend"
    /\ UNCHANGED <<full_assignment, partial_assignments, next_chunk, assignVars, polyVars, aggVars, verVars,
                   rescaleVars, batchVars>>

\* Lines 679-681: the base is extended with the next chunk.
ExtendOne ==
    /\ epc = "extend"
    /\ next_chunk < Len(partial_assignments)
    /\ combined' = extend(combined, partial_assignments[next_chunk + 1])
    /\ next_chunk' = next_chunk + 1
    /\ UNCHANGED <<full_assignment, partial_assignments, epc, assignVars, polyVars, aggVars, verVars,
                   rescaleVars, batchVars>>

\* Line 682: every chunk has been consumed; the two assignments are compared.
ExtendCompare ==
    /\ epc = "extend"
    /\ next_chunk = Len(partial_assignments)
    /\ epc' = "done"
    /\ UNCHANGED <<full_assignment, partial_assignments, combined, next_chunk, assignVars, polyVars, aggVars,
                   verVars, rescaleVars, batchVars>>

ExtendNext ==
    \/ ExtendStartChunk
    \/ ExtendAlloc
    \/ ExtendAllocInput
    \/ ExtendBase
    \/ ExtendOne
    \/ ExtendCompare

SpecExtend == ExtendInit /\ [][ExtendNext]_vars

\* C17: a base assignment holding the constant-one input, extended with the
\* chunks in order, equals the assignment all operations were applied to, in
\* every density tracker, a, b, c, input_assignment and aux_assignment.
C17_ExtendEqualsSequentialConstruction ==
    epc = "done" => combined = full_assignment

\* The comparison was made after two chunks or more, two of them holding an
\* input and an auxiliary allocation each.
C17_Witness ==
    /\ epc = "done"
    /\ combined = full_assignment
    /\ next_chunk >= 2
    /\ \A k \in 1 .. 2 :
          /\ Len(partial_assignments[k].input_assignment) = 2
          /\ Len(partial_assignments[k].aux_assignment) = 1
    /\ full_assignment.input_assignment[2] # full_assignment.input_assignment[3]

\* ------------------------------------------------------------------------
\* The sum of the powers of r
\* ------------------------------------------------------------------------

\* 1 + r + ... + r^(n-1), added up term by term.
RECURSIVE sum_of_powers(_, _)
sum_of_powers(r, n) == IF n = 0 THEN 0 ELSE FrAdd(sum_of_powers(r, n - 1), FrPow(r, n - 1))

\* C18: for the r the verifier derives and n the number of statements, the
\* computation of r_sum does not fail and gives 1 + r + ... + r^(n-1).
C18_RSumIsSumOfPowers ==
    vpc = "r_sum" =>
        /\ verify_r_sum(v_r, Len(public_inputs)) # None
        /\ verify_r_sum(v_r, Len(public_inputs)) = sum_of_powers(v_r, Len(public_inputs))

\* ------------------------------------------------------------------------
\* The challenges of the TIPP recursion on both sides
\* ------------------------------------------------------------------------

\* The rounds gipa_tipp has completed, as the verifier replays them from the
\* commitments and cross products the prover has recorded.
Replayed == gipa_verify_tipp(agg.com_ab, FqkOne, gipa)

\* C19: between the rounds of gipa_tipp, gipa_verify_tipp replayed over the
\* prover's (comms, z_vec) yields the prover's challenges and challenges_inv
\* in insertion order; each challenges_inv is the round's hash value and each
\* challenge its inverse.
C19_ReplayYieldsProversChallenges ==
    (pc \in {"gipa_loop", "gipa_join", "gipa_challenge"})
        => /\ Replayed.challenges = gipa.challenges
           /\ Replayed.challenges_inv = gipa.challenges_inv
           /\ \A i \in 1 .. Len(gipa.challenges) :
                 /\ gipa.challenges_inv[i] # 0
                 /\ gipa.challenges[i] = FrInverse(gipa.challenges_inv[i])

\* Two rounds have been completed, the second hashing the first's challenge,
\* and the replay agrees with the prover on challenges that differ from
\* their inverses.
C19_Witness ==
    /\ pc = "gipa_loop"
    /\ Len(gipa.challenges) = 2
    /\ Replayed.challenges = gipa.challenges
    /\ Replayed.challenges_inv = gipa.challenges_inv
    /\ \E i \in 1 .. 2 : gipa.challenges[i] # gipa.challenges_inv[i]

\* ------------------------------------------------------------------------
\* The transcripts of the KZG openings on both sides
\* ------------------------------------------------------------------------

\* prove_tipp, lines 140-178, on the lists as reversed at lines 138-139: the
\* element hashed into the KZG challenge, and the transcript and shift of the
\* openings of v and of w.
prove_tipp_kzg_inputs(challenges, challenges_inv, r_shift) ==
    [hashed |-> challenges[1],
     v_transcript |-> challenges_inv, v_shift |-> FrInverse(r_shift),
     w_transcript |-> challenges, w_shift |-> 1]

\* verify_tipp with the lists used as gipa_verify_tipp returns them.
verify_tipp_kzg_inputs_unreversed(comm_ab, z, gipa_proof, r_shift) ==
    LET g == gipa_verify_tipp(comm_ab, z, gipa_proof)
    IN  [hashed |-> g.challenges[1],
         v_transcript |-> g.challenges_inv, v_shift |-> FrInverse(r_shift),
         w_transcript |-> g.challenges, w_shift |-> 1]

\* verify_tipp, lines 229-279: the lists of gipa_verify_tipp are reversed; the
\* element hashed, and the transcript and shift of the checks of v and of w.
verify_tipp_kzg_inputs(comm_ab, z, gipa_proof, r_shift) ==
    LET g == gipa_verify_tipp(comm_ab, z, gipa_proof)
        challenges == Reverse(g.challenges)
        challenges_inv == Reverse(g.challenges_inv)
    IN  [hashed |-> challenges[1],
         v_transcript |-> challenges_inv, v_shift |-> FrInverse(r_shift),
         w_transcript |-> challenges, w_shift |-> 1]

\* prove_mipp, lines 590-624: the challenges of gipa_mipp are reversed and
\* inverted; the element hashed, and the transcript and shift of the opening of v.
prove_mipp_kzg_inputs(mipp_challenges) ==
    LET challenges == Reverse(mipp_challenges)
        challenges_inv == [i \in 1 .. Len(challenges) |-> FrInverse(challenges[i])]
    IN  [hashed |-> challenges[1], v_transcript |-> challenges_inv, v_shift |-> 1]

\* verify_mipp, lines 578-644: the lists of gipa_verify_mipp are reversed; the
\* element hashed, and the transcript and shift of the check of v.
verify_mipp_kzg_inputs(com_c, agg_c, gipa_proof) ==
    LET g == gipa_verify_mipp(com_c, agg_c, gipa_proof)
        challenges == Reverse(g.challenges)
        challenges_inv == Reverse(g.challenges_inv)
    IN  [hashed |-> challenges[1], v_transcript |-> challenges_inv, v_shift |-> 1]

\* gipa_mipp on the batch's C and r_vec, as prove_mipp calls it.
MippOfBatch == gipa_mipp(mipp_start(C(proofs), agg.r_vec, get_commitment_keys(ip_srs)[1]))

\* C20: once prove_tipp has reversed its lists, what it hashes and the
\* transcripts and shifts of its openings are those of verify_tipp on the same
\* proof: v with the reversed challenges_inv and r^-1, w with the reversed
\* challenges and one, the element hashed being the last challenge generated;
\* likewise prove_mipp and verify_mipp, v with the reversed challenges_inv and one.
\* (With no round at all both sides panic on challenges.first().unwrap().)
C20_KzgTranscriptsAgree ==
    (pc = "tipp_kzg" /\ Len(gipa.challenges) > 0) =>
        LET p == prove_tipp_kzg_inputs(gipa.challenges, gipa.challenges_inv, agg.r)
            generated == Replayed.challenges
            m == MippOfBatch
        IN  /\ p = verify_tipp_kzg_inputs(agg.com_ab, FqkOne, gipa, agg.r)
            /\ p.hashed = generated[Len(generated)]
            /\ p.v_transcript = Reverse(Replayed.challenges_inv)
            /\ p.w_transcript = Reverse(generated)
            /\ prove_mipp_kzg_inputs(m.challenges)
                   = verify_mipp_kzg_inputs(agg.com_c, FqkOne, m)
            /\ prove_mipp_kzg_inputs(m.challenges).hashed = m.challenges[Len(m.challenges)]

\* prove_tipp is at its KZG challenge after two rounds whose challenges differ,
\* so that the reversed lists are not the lists themselves, and the two sides agree.
C20_Witness ==
    /\ pc = "tipp_kzg"
    /\ Len(gipa.challenges) = 2
    /\ gipa.challenges # Reverse(gipa.challenges)
    /\ prove_tipp_kzg_inputs(gipa.challenges, gipa.challenges_inv, agg.r)
           = verify_tipp_kzg_inputs(agg.com_ab, FqkOne, gipa, agg.r)
    /\ MippOfBatch.challenges # Reverse(MippOfBatch.challenges)

\* ------------------------------------------------------------------------
\* The lengths kept by gipa_tipp (SpecAgg)
\* ------------------------------------------------------------------------

InGipaTipp == pc \in {"gipa_loop", "gipa_join", "gipa_challenge"}
\* The six vectors gipa_tipp folds all have length n.
GipaLengthsAre(n) ==
    /\ Len(gipa.m_a) = n /\ Len(gipa.m_b) = n
    /\ Len(gipa.vkey.a) = n /\ Len(gipa.vkey.b) = n
    /\ Len(gipa.wkey.a) = n /\ Len(gipa.wkey.b) = n
\* The four lists gipa_tipp records all have k entries.
GipaRecorded(k) ==
    /\ Len(gipa.comms) = k /\ Len(gipa.z_vec) = k
    /\ Len(gipa.challenges) = k /\ Len(gipa.challenges_inv) = k

\* C21: gipa_tipp started with n = 2^l elements has, at the start of and
\* throughout round k, m_a, m_b, vkey.a, vkey.b, wkey.a and wkey.b of length
\* n / 2^k and k entries in comms, z_vec, challenges and challenges_inv; the
\* loop leaves with every length one after exactly l rounds, so the final
\* assertions hold and the four lists have l entries.
C21_GipaLengthsHalve ==
    LET n == Len(proofs)
        k == Len(gipa.comms)
    IN  /\ InGipaTipp =>
             /\ 2 ^ k <= n /\ n % (2 ^ k) = 0
             /\ GipaLengthsAre(n \div (2 ^ k))
             /\ GipaRecorded(k)
             /\ (pc = "gipa_loop" /\ Len(gipa.m_a) <= 1) =>
                    (tipp_final_asserts(gipa) /\ 2 ^ k = n)
        /\ pc = "tipp_kzg" => (GipaLengthsAre(1) /\ GipaRecorded(k) /\ 2 ^ k = n)

\* gipa_tipp has left its loop after two rounds on a batch of four.
C21_Witness ==
    /\ pc = "tipp_kzg"
    /\ Len(proofs) = 4
    /\ Len(gipa.comms) = 2
    /\ GipaLengthsAre(1)

\* ------------------------------------------------------------------------
\* The challenges of the GIPA rounds are invertible (SpecAgg)
\* ------------------------------------------------------------------------

NonZero == Fr \ {0}
\* Every recorded pair is a non-zero element with its inverse.
ChallengePairsOk(challenges, challenges_inv) ==
    /\ Len(challenges) = Len(challenges_inv)
    /\ \A k \in 1 .. Len(challenges) :
          /\ challenges[k] \in NonZero
          /\ challenges_inv[k] \in NonZero
          /\ FrMul(challenges[k], challenges_inv[k]) = 1

\* The transcript t and the transcripts obtained from it by replacing z_l of
\* its first round: what a verifier may be given.
TranscriptsAround(t) ==
    {t} \cup {[t EXCEPT !.z_vec[1] = <<d, @[2]>>] : d \in IF Len(t.z_vec) > 0 THEN Fqk ELSE {}}
MippTranscriptsAround(t) ==
    {t} \cup {[t EXCEPT !.z_vec[1] = <<d, @[2]>>] : d \in IF Len(t.z_vec) > 0 THEN Fr ELSE {}}

\* prove_mipp has its inputs and would pass its size check.
MippCallable == Len(agg.r_vec) > 0 /\ ~mipp_malformed(C(proofs), agg.r_vec)

\* The hash value of the current iteration of gipa_tipp's challenge loop.
CurrentHash ==
    fr_from_u128(Sha256_digest(tipp_hash_input(counter_nonce, last_or_zero(gipa.challenges),
                                               join_results(join))))

RecordedChallengesInvertible ==
    /\ ChallengePairsOk(gipa.challenges, gipa.challenges_inv)
    /\ Len(agg.com_ab) = 2 =>
          \A t \in TranscriptsAround(gipa) :
             LET v == gipa_verify_tipp(agg.com_ab, FqkOne, t)
             IN  ChallengePairsOk(v.challenges, v.challenges_inv)
    /\ MippCallable =>
          /\ \A k \in 1 .. Len(MippOfBatch.challenges) : MippOfBatch.challenges[k] \in NonZero
          /\ \A t \in MippTranscriptsAround(MippOfBatch) :
                LET v == gipa_verify_mipp(agg.com_c, 0, t)
                IN  ChallengePairsOk(v.challenges, v.challenges_inv)

ZeroHashIsRetried ==
    (pc = "gipa_challenge" /\ CurrentHash = 0) =>
        /\ gipa' = gipa
        /\ counter_nonce < NonceMax => (counter_nonce' = counter_nonce + 1 /\ pc' = pc)

\* C22: every challenge recorded by a GIPA round, in gipa_tipp, gipa_mipp,
\* gipa_verify_tipp and gipa_verify_mipp, is non-zero and is recorded with
\* its inverse (challenges[k] * challenges_inv[k] = 1); an iteration of the
\* challenge loop whose hash value is zero records nothing and goes on to the
\* next nonce.
C22_ChallengesAreInvertible == []RecordedChallengesInvertible /\ [][ZeroHashIsRetried]_vars

\* A round of gipa_tipp has been recorded after a retry: nonce 0 hashed to zero.
C22_Witness ==
    /\ pc = "gipa_loop"
    /\ Len(gipa.challenges) > 0
    /\ \E k \in 1 .. Len(gipa.challenges) :
          fr_from_u128(Sha256_digest(
              <<0, IF k = 1 THEN 0 ELSE gipa.challenges[k - 1],
                gipa.comms[k][1][1], gipa.comms[k][1][2], gipa.comms[k][2][1],
                gipa.comms[k][2][2], gipa.z_vec[k][2], gipa.z_vec[k][1]>>)) = 0
    /\ ChallengePairsOk(gipa.challenges, gipa.challenges_inv)

\* ------------------------------------------------------------------------
\* The collapsed key of gipa_tipp is the transcript polynomial (SpecAgg)
\* ------------------------------------------------------------------------

\* gipa_tipp run on the batch as aggregate_proofs would call it were the
\* batching scalar r: A^r, B, the key v rescaled by the inverse powers of r, w.
GipaTippWith(r) ==
    LET keys == get_commitment_keys(ip_srs)
        r_vec == structured_scalar_power(Len(proofs), r)
    IN  gipa_tipp(tipp_start(rescale_a(A(proofs), r_vec), B(proofs),
                             scale(keys[1], invert_r_vec(r_vec)), keys[2]))

\* final_vkey = (h^f_v(alpha), h^f_v(beta)), f_v the product over the
\* transcript t with shift r_shift, written out term by term; and the two
\* computations of f_v used by the KZG opening and by its check give f_v too.
CollapsedKeyIs(final_vkey, t, r_shift) ==
    /\ final_vkey = << product_form(t, 1, ip_srs.alpha, r_shift),
                       product_form(t, 1, ip_srs.beta, r_shift) >>
    /\ Len(t) > 0 =>
         \A z \in Fr :
            /\ polynomial_evaluation_product_form_from_transcript(t, z, r_shift)
                   = product_form(t, 1, z, r_shift)
            /\ evaluate(polynomial_coefficients_from_transcript(t, r_shift), z)
                   = product_form(t, 1, z, r_shift)

\* C23: after gipa_tipp on the key v rescaled by r^-1, final_vkey is
\* (h^f_v(alpha), h^f_v(beta)) with f_v(X) = prod_j (1 + t[j] * (r^-1 X)^(2^j))
\* and t the reversed challenges_inv, for the r of the call and for every
\* non-zero r; f_v is the polynomial whose coefficients
\* prove_commitment_key_kzg_opening divides and whose value
\* verify_kzg_opening_g2 computes (the two need at least one round).
C23_FinalVkeyIsTranscriptPolynomial ==
    pc = "tipp_kzg" =>
        /\ CollapsedKeyIs(first(gipa.vkey), gipa.challenges_inv, FrInverse(agg.r))
        /\ \A r \in NonZero :
              LET g == GipaTippWith(r)
              IN  CollapsedKeyIs(first(g.vkey), Reverse(g.challenges_inv), FrInverse(r))

\* gipa_tipp has collapsed a key of four powers in two rounds whose hash
\* values differ, and with r = 3 the rescaled key collapses to f_v as well.
C23_Witness ==
    /\ pc = "tipp_kzg"
    /\ Len(gipa.challenges_inv) = 2
    /\ gipa.challenges_inv[1] # gipa.challenges_inv[2]
    /\ CollapsedKeyIs(first(gipa.vkey), gipa.challenges_inv, FrInverse(agg.r))
    /\ CollapsedKeyIs(first(GipaTippWith(3).vkey), Reverse(GipaTippWith(3).challenges_inv),
                      FrInverse(3))
    /\ first(GipaTippWith(3).vkey) # first(gipa.vkey)

\* ------------------------------------------------------------------------
\* The verifier's TIPP fold meets the prover's leaves (SpecAgg)
\* ------------------------------------------------------------------------

\* The recursion state g of gipa_tipp started on (v, w, a, b) against the fold
\* of gipa_verify_tipp over the rounds g has recorded: (T*, U*) is the
\* commitment and Z* the inner product of what the prover still holds.
TippFoldMeets(g, v, w, a, b) ==
    LET folded == gipa_verify_tipp(commit_pair(v, w, a, b), inner_product_pairing(a, b), g)
    IN  /\ <<folded.t, folded.u>> = commit_pair(g.vkey, g.wkey, g.m_a, g.m_b)
        /\ folded.z = inner_product_pairing(g.m_a, g.m_b)

\* The fold of gipa_verify_tipp over the proof's (comms, z_vec) from
\* (com_ab, ip_ab), against the leaves of a finished gipa_tipp.
TippLeavesMeet(g, com_ab, ip_ab) ==
    LET folded == gipa_verify_tipp(com_ab, ip_ab, g)
        final_a == g.m_a[1]
        final_b == g.m_b[1]
        final_vkey == first(g.vkey)
        final_wkey == first(g.wkey)
    IN  /\ <<folded.t, folded.u>> =
              commit_pair([a |-> <<final_vkey[1]>>, b |-> <<final_vkey[2]>>],
                          [a |-> <<final_wkey[1]>>, b |-> <<final_wkey[2]>>],
                          <<final_a>>, <<final_b>>)
        /\ folded.z = pairing(final_a, final_b)

\* C24: for an honest TIPP transcript the (T*, U*, Z*) that gipa_verify_tipp
\* folds from (com_ab, ip_ab) are commit_pair(final_vkey, final_wkey, final_a,
\* final_b) and e(final_a, final_b); and after every round of the prover the
\* fold over the rounds recorded so far is the commitment and the inner
\* product of the halved vectors, i.e. each round keeps
\* commit_pair(v', w', A', B') = commit_pair(v, w, A, B) * c_L^c * c_R^c_inv.
C24_TippFoldMeetsProverLeaves ==
    LET w == get_commitment_keys(ip_srs)[2]
        ip_ab == inner_product_pairing(agg.a_r, B(proofs))
    IN  /\ pc = "gipa_loop" =>
              TippFoldMeets(gipa, agg.vkey_r_inv, w, agg.a_r, B(proofs))
        /\ pc = "tipp_kzg" =>
              /\ TippLeavesMeet(gipa, agg.com_ab, ip_ab)
              /\ \A r \in NonZero :
                    TippLeavesMeet(GipaTippWith(r), agg.com_ab,
                        inner_product_pairing(
                            rescale_a(A(proofs), structured_scalar_power(Len(proofs), r)),
                            B(proofs)))

\* gipa_tipp has folded a batch of four in two rounds with challenges other
\* than one, the cross commitments are not all the unit, and the fold of the
\* verifier meets the leaves.
C24_Witness ==
    /\ pc = "tipp_kzg"
    /\ Len(gipa.comms) = 2
    /\ \E k \in 1 .. 2 : gipa.challenges[k] # 1 /\ gipa.comms[k][1] # <<FqkOne, FqkOne>>
    /\ gipa.z_vec[1] # <<FqkOne, FqkOne>>
    /\ TippLeavesMeet(gipa, agg.com_ab, inner_product_pairing(agg.a_r, B(proofs)))
    /\ <<Replayed.t, Replayed.u>> # agg.com_ab

\* ------------------------------------------------------------------------
\* The verifier's MIPP fold meets the prover's leaves (SpecAgg)
\* ------------------------------------------------------------------------

\* gipa_mipp on the batch's C with the powers of r, as prove_mipp would call
\* it were the batching scalar r.
GipaMippWith(r) ==
    gipa_mipp(mipp_start(C(proofs), structured_scalar_power(Len(proofs), r),
                         get_commitment_keys(ip_srs)[1]))

\* The fold of gipa_verify_mipp over the transcript of the finished gipa_mipp g,
\* from (com_c, agg_c), against the leaves of g.
MippLeavesMeet(g, com_c, agg_c) ==
    LET folded == gipa_verify_mipp(com_c, agg_c, g)
        final_c == g.m_c[1]
        final_r == g.m_r[1]
        final_vkey == first(g.vkey)
    IN  /\ folded.z = FrMul(final_c, final_r)
        /\ folded.t = pairing(final_c, final_vkey[1])
        /\ folded.u = pairing(final_c, final_vkey[2])

\* C25: for an honest MIPP transcript the values gipa_verify_mipp folds from
\* (com_c, agg_c) meet the prover's leaves: Z* = final_c * final_r,
\* T* = e(final_c, final_vkey.0), U* = e(final_c, final_vkey.1), for the r of
\* the call and for every non-zero r.
C25_MippFoldMeetsProverLeaves ==
    pc = "tipp_kzg" =>
        LET com_c == commit_single_g1(get_commitment_keys(ip_srs)[1], C(proofs))
        IN  /\ agg.com_c = com_c
            /\ MippLeavesMeet(MippOfBatch, agg.com_c,
                              multiexponentiation(C(proofs), agg.r_vec))
            /\ \A r \in NonZero :
                  MippLeavesMeet(GipaMippWith(r), com_c,
                      multiexponentiation(C(proofs),
                                          structured_scalar_power(Len(proofs), r)))

\* For a batch of four, gipa_mipp with r = 3 takes two rounds, its cross
\* values are not all zero, a challenge differs from one, and the folds meet.
C25_Witness ==
    /\ pc = "tipp_kzg"
    /\ Len(proofs) = 4
    /\ LET g == GipaMippWith(3)
       IN  /\ Len(g.challenges) = 2
           /\ \E k \in 1 .. 2 : g.challenges[k] # 1 /\ g.z_vec[k][1] # 0 /\ g.z_vec[k][2] # 0
           /\ g.comms[1][1] # g.comms[1][2]
           /\ MippLeavesMeet(g, commit_single_g1(get_commitment_keys(ip_srs)[1], C(proofs)),
                  multiexponentiation(C(proofs), structured_scalar_power(4, 3)))
           /\ g.m_c[1] # 0 /\ g.m_r[1] # 0

\* ------------------------------------------------------------------------
\* verify_aggregate_proof on degenerate input (SpecVer)
\* ------------------------------------------------------------------------

\* No statement at all, or a TIPP or MIPP transcript without a round.
Degenerate ==
    \/ Len(public_inputs) = 0
    \/ gipa_rounds(proof.proof_ab.gipa) = 0
    \/ gipa_rounds(proof.proof_c.gipa) = 0

\* C26: verify_aggregate_proof does not abort on structurally degenerate
\* input: with no statement, or with a TIPP or MIPP transcript of zero rounds,
\* no task panics and the call returns Ok(false) or an Err value.
C26_DegenerateInputNeverAborts ==
    Degenerate =>
        /\ \A t \in {"tipp", "mipp"} : task[t].st # "panicked"
        /\ vpc # "aborted"
        /\ vpc = "done" => v_result \in {"Ok(false)", "Err(MalformedVerifyingKey)"}

\* ------------------------------------------------------------------------
\* Termination of verify_aggregate_proof (FairSpecVer)
\* ------------------------------------------------------------------------

\* The calls of the liveness check: the assembled proof of a batch, unmodified,
\* with the batch's statements or with any short list of statements.
VerHonestInit ==
    /\ VerInit
    /\ \E batch \in VerBatches : AssembledProof(batch) = proof

\* The steps of the calling thread, and the sends of the two spawned tasks.
VerBody == VerDeriveR \/ VerCheckInputs \/ VerSpawnTipp \/ VerSpawnMipp \/ VerRSum \/ VerScopeEnd
VerSends == TippTaskSend \/ MippTaskSend

\* The calling thread runs the body of the scope, and a worker of the pool (of
\* any size >= 1) runs every spawned task: none of the tasks that get spawned
\* blocks (each only sends, at most twice in all, on a channel of capacity
\* ten), so a step that can be taken is taken, and a spawned task does not
\* stay spawned for ever (weak fairness of TippTaskVerify and MippTaskVerify,
\* which are enabled exactly while their task is "spawned").
FairSpecVer ==
    /\ VerHonestInit /\ [][VerNext]_vars
    /\ WF_vars(VerBody) /\ WF_vars(VerSends)
    /\ []<>(task.tipp.st # "spawned") /\ []<>(task.mipp.st # "spawned")

\* Every call comes to an end, by returning or by panicking.
VerTerminates == <>(vpc \in {"done", "aborted"})

\* C27: verify_aggregate_proof is deadlock-free: whatever the order in which
\* the pool runs the spawned tasks, the call eventually returns (with Ok or Err).
C27_CallEventuallyReturns == <>(vpc = "done")

\* ------------------------------------------------------------------------
\* The tuples sent to the accumulator (SpecVer)
\* ------------------------------------------------------------------------

\* Capacity of the tuple channel: bounded(10).
TupleChannelCapacity == 10

\* The call has come to an end past the check of the statements, and no
\* spawned task has panicked.
EndedWithoutTaskFailure ==
    /\ vpc \in {"done", "aborted"}
    /\ v_result # "Err(MalformedVerifyingKey)"
    /\ \A t \in {"tipp", "mipp"} : task[t].st = "sent"

\* C28: in every interleaving in which no task fails, exactly five tuples
\* are sent on the tuple channel, no send blocks (the channel never holds
\* more than its capacity), and the verdict sent is that of the five tuples
\* merged into the seed, so the call returns Ok of it.
C28_FiveTuplesThenVerdict ==
    /\ Len(chan.items) <= TupleChannelCapacity
    /\ EndedWithoutTaskFailure =>
          /\ Len(chan.items) = 5
          /\ v_result \in {"Ok(true)", "Ok(false)"}

\* ------------------------------------------------------------------------
\* Specification SpecAssign: any calls of alloc, alloc_input, enforce and
\* extend on two ProvingAssignments
\* ------------------------------------------------------------------------

\* Largest number of calls made on the two constraint systems.
MaxCalls == 4

\* DensityTracker::inc(idx): the bit of the variable is set, and counted once.
inc(d, idx) ==
    IF d.bv[idx + 1] THEN d
    ELSE [bv |-> [d.bv EXCEPT ![idx + 1] = TRUE], total_density |-> d.total_density + 1]

\* A linear combination is a list of variables <<kind, index>>, each with
\* coefficient one.  LinearCombination::eval marks in the density tracker d
\* the variables of the given kind, from term i on.
RECURSIVE eval_density(_, _, _, _)
eval_density(lc, kind, d, i) ==
    IF i > Len(lc) THEN d
    ELSE eval_density(lc, kind, IF lc[i][1] = kind THEN inc(d, lc[i][2]) ELSE d, i + 1)

\* LinearCombination::eval: the value of the combination, from term i on.
RECURSIVE eval_value(_, _, _)
eval_value(lc, pa, i) ==
    IF i > Len(lc) THEN 0
    ELSE FrAdd(IF lc[i][1] = "Input" THEN pa.input_assignment[lc[i][2] + 1]
               ELSE pa.aux_assignment[lc[i][2] + 1],
               eval_value(lc, pa, i + 1))

\* ProvingAssignment::enforce, lines 133-179: a is evaluated against
\* a_aux_density, b against b_input_density and b_aux_density, c against no
\* density; one entry is pushed to each of a, b and c.
enforce(pa, la, lb, lc) ==
    [pa EXCEPT !.a_aux_density = eval_density(la, "Aux", @, 1),
               !.b_input_density = eval_density(lb, "Input", @, 1),
               !.b_aux_density = eval_density(lb, "Aux", @, 1),
               !.a = Append(@, eval_value(la, pa, 1)),
               !.b = Append(@, eval_value(lb, pa, 1)),
               !.c = Append(@, eval_value(lc, pa, 1))]

\* The value closures given to alloc and alloc_input: one per value, and one
\* that returns an error.
Closures == {[ok |-> TRUE, value |-> el] : el \in ElPool} \cup {[ok |-> FALSE, value |-> 0]}

\* alloc, lines 114-118, with the closure f: "f()?" returns the closure's
\* error before anything is pushed.
alloc_with(pa, f) == IF f.ok THEN alloc(pa, f.value) ELSE pa
\* alloc_input, lines 127-130, likewise.
alloc_input_with(pa, f) == IF f.ok THEN alloc_input(pa, f.value) ELSE pa

\* The variables of a constraint system, and the combinations given to enforce:
\* the empty one and those of one variable.
Variables(pa) ==
    {<<"Input", i>> : i \in 0 .. Len(pa.input_assignment) - 1}
        \cup {<<"Aux", i>> : i \in 0 .. Len(pa.aux_assignment) - 1}
LinearCombinations(pa) == {<<>>} \cup {<<v>> : v \in Variables(pa)}

Targets == {"self", "other"}

\* Both constraint systems come from ProvingAssignment::new, lines 94-105.
AssignInit ==
    /\ assignments = [self |-> ProvingAssignment_new, other |-> ProvingAssignment_new]
    /\ enforced = [self |-> 0, other |-> 0]
    /\ returned = NoCall
    /\ calls = 0
    /\ apc = "ops"
    /\ PolyIdle
    /\ AggOff
    /\ VerOff
    /\ RescaleIdle
    /\ BatchOff
    /\ ExtendOff

\* Lines 108-119: alloc on one of the two, returning Variable(Aux(len - 1)) or
\* the closure's error.
AssignAlloc ==
    /\ apc = "ops"
    /\ calls < MaxCalls
    /\ \E t \in Targets, f \in Closures :
         LET after == alloc_with(assignments[t], f)
         IN  /\ assignments' = [assignments EXCEPT ![t] = after]
             /\ returned' = [op |-> "alloc", target |-> t, ok |-> f.ok,
                             kind |-> IF f.ok THEN "Aux" ELSE "Err",
                             index |-> IF f.ok THEN Len(after.aux_assignment) - 1 ELSE 0,
                             value |-> f.value, before |-> assignments[t]]
    /\ calls' = calls + 1
    /\ UNCHANGED <<enforced, apc, polyVars, aggVars, verVars, rescaleVars, batchVars, extendVars>>

\* Lines 121-131: alloc_input on one of the two, returning
\* Variable(Input(len - 1)) or the closure's error.
AssignAllocInput ==
    /\ apc = "ops"
    /\ calls < MaxCalls
    /\ \E t \in Targets, f \in Closures :
         LET after == alloc_input_with(assignments[t], f)
         IN  /\ assignments' = [assignments EXCEPT ![t] = after]
             /\ returned' = [op |-> "alloc_input", target |-> t, ok |-> f.ok,
                             kind |-> IF f.ok THEN "Input" ELSE "Err",
                             index |-> IF f.ok THEN Len(after.input_assignment) - 1 ELSE 0,
                             value |-> f.value, before |-> assignments[t]]
    /\ calls' = calls + 1
    /\ UNCHANGED <<enforced, apc, polyVars, aggVars, verVars, rescaleVars, batchVars, extendVars>>

\* Lines 133-179: enforce on one of the two, over its own variables.
AssignEnforce ==
    /\ apc = "ops"
    /\ calls < MaxCalls
    /\ \E t \in Targets :
         \E la \in LinearCombinations(assignments[t]), lb \in LinearCombinations(assignments[t]) :
            /\ assignments' = [assignments EXCEPT ![t] = enforce(@, la, lb, la)]
            /\ enforced' = [enforced EXCEPT ![t] = @ + 1]
            /\ returned' = [op |-> "enforce", target |-> t, ok |-> TRUE, kind |-> "none",
                            index |-> 0, value |-> 0, before |-> assignments[t]]
    /\ calls' = calls + 1
    /\ UNCHANGED <<apc, polyVars, aggVars, verVars, rescaleVars, batchVars, extendVars>>

\* Lines 201-214: self.extend(other); other is moved into the call, and a
\* fresh constraint system takes its place.  When other holds no input the
\* slice [1..] of line 211 panics, after lines 202-208 have extended the three
\* density trackers and a, b and c of self.
AssignExtend ==
    /\ apc = "ops"
    /\ calls < MaxCalls
    /\ IF Len(assignments.other.input_assignment) = 0
       THEN /\ apc' = "aborted"
            /\ returned' = [op |-> "extend", target |-> "self", ok |-> FALSE, kind |-> "panic",
                            index |-> 0, value |-> 0, before |-> assignments.self]
            /\ LET self == assignments.self
                   other == assignments.other
               IN  assignments' =
                     [self |-> [self EXCEPT
                                  !.a_aux_density =
                                      DensityTracker_extend(@, other.a_aux_density, FALSE),
                                  !.b_input_density =
                                      DensityTracker_extend(@, other.b_input_density, TRUE),
                                  !.b_aux_density =
                                      DensityTracker_extend(@, other.b_aux_density, FALSE),
                                  !.a = @ \o other.a,
                                  !.b = @ \o other.b,
                                  !.c = @ \o other.c],
                      other |-> ProvingAssignment_new]
            /\ enforced' = [self |-> enforced.self + enforced.other, other |-> 0]
       ELSE /\ assignments' = [self |-> extend(assignments.self, assignments.other),
                               other |-> ProvingAssignment_new]
            /\ enforced' = [self |-> enforced.self + enforced.other, other |-> 0]
            /\ returned' = [op |-> "extend", target |-> "self", ok |-> TRUE, kind |-> "none",
                            index |-> 0, value |-> 0, before |-> assignments.self]
            /\ UNCHANGED apc
    /\ calls' = calls + 1
    /\ UNCHANGED <<polyVars, aggVars, verVars, rescaleVars, batchVars, extendVars>>

AssignNext == AssignAlloc \/ AssignAllocInput \/ AssignEnforce \/ AssignExtend

SpecAssign == AssignInit /\ [][AssignNext]_vars

\* a, b and c have one entry per enforce; the density trackers have one
\* element per value of the assignment they track.
LengthsAgree(pa, n) ==
    /\ Len(pa.a) = n /\ Len(pa.b) = n /\ Len(pa.c) = n
    /\ Len(pa.a_aux_density.bv) = Len(pa.aux_assignment)
    /\ Len(pa.b_aux_density.bv) = Len(pa.aux_assignment)
    /\ Len(pa.b_input_density.bv) = Len(pa.input_assignment)

\* What the last call returned, against the constraint system it was made on.
ReturnIsRight ==
    LET now == assignments[returned.target]
    IN  /\ (returned.op = "alloc" /\ returned.ok) =>
               /\ returned.kind = "Aux"
               /\ Len(now.aux_assignment) = Len(returned.before.aux_assignment) + 1
               /\ returned.index = Len(now.aux_assignment) - 1
               /\ now.aux_assignment[returned.index + 1] = returned.value
        /\ (returned.op = "alloc_input" /\ returned.ok) =>
               /\ returned.kind = "Input"
               /\ Len(now.input_assignment) = Len(returned.before.input_assignment) + 1
               /\ returned.index = Len(now.input_assignment) - 1
               /\ now.input_assignment[returned.index + 1] = returned.value
        /\ (returned.op \in {"alloc", "alloc_input"} /\ ~returned.ok) =>
               now = returned.before

\* C29: after any sequence of alloc, alloc_input, enforce and extend, on each
\* ProvingAssignment a, b and c have one entry per enforce, a_aux_density and
\* b_aux_density have as many elements as aux_assignment, b_input_density has
\* as many as input_assignment; alloc and alloc_input return the index of the
\* value just appended, and leave the assignment unchanged when the value
\* closure returns an error.
C29_AssignmentInvariants ==
    apc = "ops" =>
        /\ \A t \in Targets : LengthsAgree(assignments[t], enforced[t])
        /\ ReturnIsRight

\* ------------------------------------------------------------------------
\* create_proof_batch_priority: the proofs returned with Ok
\* ------------------------------------------------------------------------

\* C30: when create_proof_batch_priority returns Ok it returns exactly one
\* proof per input circuit, in circuit order, proof i built from circuit i with
\* the blinding scalars r_s[i] and s_s[i], for every r_s and s_s, also those
\* whose length differs from the number of circuits.
C30_OkReturnsOneProofPerCircuit ==
    (bpc = "done" /\ batch_result = "Ok") =>
        /\ Len(batch_proofs) = Len(batch_in.circuits)
        /\ \A i \in 1 .. Len(batch_proofs) :
              batch_proofs[i] = create_proof(batch_in.vk, provers[i],
                                             batch_in.r_s[i], batch_in.s_s[i])

====
